---- MODULE Spec2Model ----
(***************************************************************************)
(* The fetch cache of notiondown (class CacheClient) as a state machine.   *)
(* The in-memory maps of one CacheClient, the cache directory on disk, the *)
(* upstream content source, and one action per public operation.          *)
(*                                                                         *)
(* Strings are sequences of symbols.  The literals the code puts into file *)
(* names ("blocks-", ".json", "_") are one symbol each; IDs and cursors    *)
(* are sequences of letters.                                               *)
(***************************************************************************)
EXTENDS Naturals, Integers, Sequences, FiniteSets, TLC

\* ------------------------------------------------------------------ bounds

\* Upstream edit timestamps are 1..MaxTime; a page can be edited MaxTime-1 times.
MaxTime == 2

\* At most MaxFlights listChildren calls wait for upstream at the same time.
MaxFlights == 2

\* ---------------------------------------------------------------- constants

CACHE_VERSION == 2

\* ------------------------------------------------------------ IDs and keys

IdA == <<"a">>
IdAB == <<"a", "b">>
IdC == <<"c">>
Ids == {IdA, IdAB, IdC}

\* The data source (collection) that is queried.
DbId == <<"d">>

\* start_cursor: undefined (the empty string here) or a cursor handed out by upstream.
NoCursor == <<>>
CursorX == <<"x">>
Cursors == {NoCursor, CursorX}

\* What findParent returns on a circular reference, and Map.get on a missing key.
Undefined == <<>>

Times == 1..MaxTime

startsWith(s, p) == Len(s) >= Len(p) /\ SubSeq(s, 1, Len(p)) = p

endsWith(s, p) == Len(s) >= Len(p) /\ SubSeq(s, Len(s) - Len(p) + 1, Len(s)) = p

\* String.prototype.replace(pat, ""): removes the first occurrence of pat.
removeFirst(s, pat) ==
  LET hits == {i \in 1..(Len(s) - Len(pat) + 1) : SubSeq(s, i, i + Len(pat) - 1) = pat}
  IN IF hits = {} THEN s
     ELSE LET i == CHOOSE j \in hits : \A k \in hits : j <= k
          IN SubSeq(s, 1, i - 1) \o SubSeq(s, i + Len(pat), Len(s))

cacheKey(id, cursor) == IF cursor # <<>> THEN id \o <<"_">> \o cursor ELSE id

\* `blocks-${key}.json`
blocksFile(key) == <<"blocks-">> \o key \o <<".json">>

\* file.replace("blocks-", "").replace(".json", "")
keyOfFile(file) == removeFirst(removeFirst(file, <<"blocks-">>), <<".json">>)

isBlocksFile(file) == endsWith(file, <<".json">>) /\ startsWith(file, <<"blocks-">>)

\* ------------------------------------------------------------------- maps

\* A JavaScript Map (or a directory): a function whose domain is the keys present.
EmptyMap == [k \in {} |-> 0]

Has(m, k) == k \in DOMAIN m

Put(m, k, v) == [x \in (DOMAIN m) \cup {k} |-> IF x = k THEN v ELSE m[x]]

Del(m, ks) == [x \in (DOMAIN m) \ ks |-> m[x]]

\* --------------------------------------------------------------- upstream

\* The content source behind the API.  nodes: the blocks and pages that exist;
\* pages: the pages of the data source; edited: the pages that get edited; results[n]: the child blocks on the first page of n's listing; more: the nodes
\* whose listing has a second page (cursor "x"); pageOf[n]: the page whose edits
\* change n's listing; anc[n]: the pages n is nested under (itself included).
Block(id, hc) == [id |-> id, has_children |-> hc]

\* a > ab > c, all inside page a.
WorldChain ==
  [nodes |-> Ids,
   pages |-> {IdA},
   edited |-> {IdA},
   results |-> (IdA :> {Block(IdAB, TRUE)} @@ IdAB :> {Block(IdC, TRUE)} @@ IdC :> {}),
   more |-> {},
   pageOf |-> (IdA :> IdA @@ IdAB :> IdA @@ IdC :> IdA)]

\* Pages a and ab are unrelated; c is a block with children inside a.
WorldSiblings ==
  [nodes |-> Ids,
   pages |-> {IdA, IdAB},
   edited |-> {IdA},
   results |-> (IdA :> {Block(IdC, TRUE)} @@ IdAB :> {} @@ IdC :> {}),
   more |-> {},
   pageOf |-> (IdA :> IdA @@ IdAB :> IdAB @@ IdC :> IdA)]

\* Page a is itself listed, with children, by page c; ab is a childless block of a.
WorldNested ==
  [nodes |-> Ids,
   pages |-> {IdA, IdC},
   edited |-> {IdA},
   results |-> (IdC :> {Block(IdA, TRUE)} @@ IdA :> {Block(IdAB, FALSE)} @@ IdAB :> {}),
   more |-> {},
   pageOf |-> (IdA :> IdA @@ IdAB :> IdA @@ IdC :> IdC)]

\* Page a with one block ab that has children.
WorldPair ==
  [nodes |-> {IdA, IdAB},
   pages |-> {IdA},
   edited |-> {IdA},
   results |-> (IdA :> {Block(IdAB, TRUE)} @@ IdAB :> {}),
   more |-> {},
   pageOf |-> (IdA :> IdA @@ IdAB :> IdA)]

\* Page a alone, without blocks, listed in two parts.
WorldLeaf ==
  [nodes |-> {IdA},
   pages |-> {IdA},
   edited |-> {IdA},
   results |-> (IdA :> {}),
   more |-> {IdA},
   pageOf |-> (IdA :> IdA)]

\* Page a lists the block ab, and the listing of ab has a block with the id of a.
WorldLoop ==
  [nodes |-> {IdA, IdAB},
   pages |-> {IdA},
   edited |-> {IdA},
   results |-> (IdA :> {Block(IdAB, TRUE)} @@ IdAB :> {Block(IdA, TRUE)}),
   more |-> {},
   pageOf |-> (IdA :> IdA @@ IdAB :> IdA)]

\* The listing of page a has a block with the id of a.
WorldSelf ==
  [nodes |-> {IdA},
   pages |-> {IdA},
   edited |-> {IdA},
   results |-> (IdA :> {Block(IdA, TRUE)}),
   more |-> {},
   pageOf |-> (IdA :> IdA)]

\* Page a, listed in two parts, and a page whose ID is "a_x"; each has one block
\* without children.
WorldUnderscore ==
  [nodes |-> {IdA, IdA \o <<"_">> \o CursorX},
   pages |-> {IdA, IdA \o <<"_">> \o CursorX},
   edited |-> {IdA},
   results |-> (IdA :> {Block(IdC, FALSE)} @@ (IdA \o <<"_">> \o CursorX) :> {Block(IdAB, FALSE)}),
   more |-> {IdA},
   pageOf |-> (IdA :> IdA @@ (IdA \o <<"_">> \o CursorX) :> (IdA \o <<"_">> \o CursorX))]

Worlds ==
  {WorldChain, WorldSiblings, WorldNested, WorldPair, WorldLeaf, WorldLoop, WorldSelf,
   WorldUnderscore}

VARIABLES
  world,                  \* the upstream content source (fixed)
  upEdit,                 \* upstream: last_edited_time of every page
  useFs,                  \* Options.useFs
  blockChildrenListCache, \* key -> [res, anchor, under, disk, purged]: the response, and as
                          \*   history its anchor, the anchor's observed time when it
                          \*   was fetched, and whether loadCache read it from disk,
                          \*   and whether a purgeCacheById meant to delete it
  databaseCache,          \* data source id -> response
  databaseQueryCache,     \* key -> response
  pageCache,              \* page id -> response
  updatedAtMap,           \* id -> time (observedEditTime)
  cacheUpdatedAtMap,      \* id -> time (cachedAsOfTime)
  parentMap,              \* child id -> parent id (ParentIndex)
  metaFile,               \* meta.json, NoMeta when the file does not exist
  blockFiles,             \* file name -> [res, anchor, under, purged]: the blocks-*.json files
  dsFiles,                \* the data_source-*.json files (ids)
  fresh,                  \* the CacheClient was constructed and not used yet
  last,                   \* history: the last operation and what it returned
  dirty,                  \* history: nodes whose nearest tracked ancestor's
                          \*   observedEditTime changed since their last listing
  flights,                \* the listChildren calls that wait at `await
                          \*   base.blocks.children.list`, each with the response
                          \*   that is on its way
  posts,                  \* the caller's page list (a sequence of Post records)
  site,                   \* upstream, as the tree builder reads it: the nested pages
                          \*   each page lists, and the pages that cannot be retrieved
  tree,                   \* the HierarchyTree a builder returned, NoTree before
  warnings,               \* what the builders wrote with console.warn
  link,                   \* history: the last computeRelativePath call and its result
  found,                  \* history: the nested pages scanAndAddChildPages added, each
                          \*   with the page in whose listing its block was
  download                \* the downloadAssetsWithRetry call: its position, its
                          \*   arguments, and as history the calls it made and what
                          \*   they returned

memVars == <<blockChildrenListCache, databaseCache, databaseQueryCache, pageCache,
             updatedAtMap, cacheUpdatedAtMap, parentMap>>

diskVars == <<metaFile, blockFiles, dsFiles>>

treeVars == <<posts, site, tree, warnings, link, found, download>>

vars == <<world, upEdit, useFs, blockChildrenListCache, databaseCache,
          databaseQueryCache, pageCache, updatedAtMap, cacheUpdatedAtMap, parentMap,
          metaFile, blockFiles, dsFiles, fresh, last, dirty, flights,
          posts, site, tree, warnings, link, found, download>>

\* No tree was built, nothing was listed, logged or linked.
NoTree == [built |-> FALSE]

NoSite == [list |-> EmptyMap, listFails |-> {}, fails |-> {}]

NoLink == [none |-> TRUE]

\* downloadAssetsWithRetry was not called.
NoDownload == [pc |-> "idle"]

TreeIdle ==
  /\ posts = <<>> /\ site = NoSite /\ tree = NoTree /\ warnings = <<>> /\ link = NoLink
  /\ found = <<>> /\ download = NoDownload

\* ----------------------------------------------------- upstream responses

\* base.blocks.children.list: one page of n's child blocks.
UpList(n, c) ==
  [id |-> n, cursor |-> c, ver |-> upEdit[world.pageOf[n]],
   results |-> IF c = NoCursor THEN world.results[n] ELSE {},
   next_cursor |-> IF c = NoCursor /\ n \in world.more THEN CursorX ELSE Undefined]

\* base.dataSources.query: the pages of the data source with their edit times.  The
\* results are ordered by edit time upstream, so an edited page can show up on
\* either result page: each result page is modelled as holding every page.
UpQuery(c) ==
  [cursor |-> c,
   results |-> {[object |-> "page", id |-> p, last_edited_time |-> upEdit[p]] : p \in world.pages}]

\* base.dataSources.retrieve
UpDataSource == [object |-> "data_source", id |-> DbId]

\* base.pages.retrieve
UpPage(p) == [object |-> "page", id |-> p, ver |-> upEdit[world.pageOf[p]]]

NoRes == [none |-> TRUE]

\* ------------------------------------------------------------ CacheClient

getLastEditedTime(p) == p.last_edited_time

\* A walk that ends at the node it meets for the second time.
RECURSIVE findParentLoopStopping(_, _)
findParentLoopStopping(current, ids) ==
  IF current \in ids THEN current
  ELSE IF ~Has(parentMap, current) THEN current
  ELSE findParentLoopStopping(parentMap[current], ids \cup {current})

\* The nodes the loop of #findParent adds to ids, in order.
RECURSIVE findParentPath(_, _)
findParentPath(current, path) ==
  IF \E k \in 1..Len(path) : path[k] = current THEN path
  ELSE IF ~Has(parentMap, current) THEN path
  ELSE findParentPath(parentMap[current], Append(path, current))

RECURSIVE findParentLoop(_, _)
findParentLoop(current, ids) ==
  IF current \in ids THEN Undefined
  ELSE IF ~Has(parentMap, current) THEN current
  ELSE findParentLoop(parentMap[current], ids \cup {current})

findParent(id) == findParentLoop(id, {})

\* A validity rule that looks only for an observed edit time of the anchor.
canUseCacheUntimed(blockId) ==
  LET parentId == findParent(blockId)
  IN parentId # Undefined /\ Has(updatedAtMap, parentId)

canUseCache(blockId) ==
  LET parentId == findParent(blockId)
  IN IF parentId = Undefined THEN FALSE
     ELSE /\ Has(updatedAtMap, parentId)
          /\ Has(cacheUpdatedAtMap, parentId)
          /\ updatedAtMap[parentId] = cacheUpdatedAtMap[parentId]

\* The recursion of allChildrenIds at the given depth of calls: the ids it pushes
\* (only membership is used), how many it pushes, and whether the calls go on for
\* ever, which they do when they are nested deeper than parentMap has entries (the
\* engine ends them with "Maximum call stack size exceeded").
RECURSIVE walkChildren(_, _)
walkChildren(parent, depth) ==
  IF depth > Cardinality(DOMAIN parentMap) + 1
  THEN [ids |-> {}, pushes |-> 0, overflow |-> TRUE]
  ELSE LET kids == {x \in DOMAIN parentMap : parentMap[x] = parent}
           below == [c \in kids |-> walkChildren(c, depth + 1)]
           sum[S \in SUBSET kids] ==
             IF S = {} THEN 0
             ELSE LET c == CHOOSE x \in S : TRUE IN 1 + below[c].pushes + sum[S \ {c}]
       IN [ids |-> UNION {{c} \cup below[c].ids : c \in kids},
           pushes |-> sum[kids],
           overflow |-> \E c \in kids : below[c].overflow]

allChildrenIds(parent) == walkChildren(parent, 1).ids

\* What #writeMetaCache writes: the version, updatedAtMap and parentMap.
metaContent(uam, pm) == [version |-> CACHE_VERSION, updatedAt |-> uam, parents |-> pm]

NoMeta == [version |-> 0 - 1, updatedAt |-> EmptyMap, parents |-> EmptyMap]

\* ---------------------------------------------------------------- history

\* The observed edit time of id, 0 when there is none.
Obs(id) == IF Has(updatedAtMap, id) THEN updatedAtMap[id] ELSE 0

Last(op, id, cursor, hit, calls, err, res) ==
  [op |-> op, id |-> id, cursor |-> cursor, hit |-> hit, calls |-> calls, err |-> err,
   res |-> res, stale |-> FALSE, again |-> FALSE, prev |-> NoRes, prevUnder |-> 0,
   obs |-> 0, own |-> FALSE]

\* The record of a listChildren call.  stale: the node was marked dirty; again: an
\* earlier call on this instance fetched the key's entry (prev), when the anchor's
\* observed time was prevUnder; obs: the node's observed time at this call; own: the
\* node has no recorded parent.
LastList(blockId, cursor, hit, calls, err, res) ==
  LET key == cacheKey(blockId, cursor)
      mine == Has(blockChildrenListCache, key) /\ ~blockChildrenListCache[key].disk
  IN [Last("list", blockId, cursor, hit, calls, err, res) EXCEPT
        !.stale = blockId \in dirty,
        !.again = mine,
        !.prev = IF mine THEN blockChildrenListCache[key].res ELSE NoRes,
        !.prevUnder = IF mine THEN blockChildrenListCache[key].under ELSE 0,
        !.obs = Obs(blockId),
        !.own = ~Has(parentMap, blockId)]

\* The closest node on id's upward chain, id included, that has an observed edit time.
RECURSIVE nearestTrackedLoop(_, _)
nearestTrackedLoop(current, ids) ==
  IF current \in ids THEN Undefined
  ELSE IF Has(updatedAtMap, current) THEN current
  ELSE IF ~Has(parentMap, current) THEN Undefined
  ELSE nearestTrackedLoop(parentMap[current], ids \cup {current})

nearestTracked(id) == nearestTrackedLoop(id, {})

\* ------------------------------------------------------------------- Init

Init ==
  /\ world \in Worlds
  /\ upEdit = [p \in world.pages |-> 1]
  /\ useFs \in BOOLEAN
  /\ blockChildrenListCache = EmptyMap
  /\ databaseCache = EmptyMap
  /\ databaseQueryCache = EmptyMap
  /\ pageCache = EmptyMap
  /\ updatedAtMap = EmptyMap
  /\ cacheUpdatedAtMap = EmptyMap
  /\ parentMap = EmptyMap
  /\ metaFile = NoMeta
  /\ blockFiles = EmptyMap
  /\ dsFiles = {}
  /\ fresh = TRUE
  /\ last = Last("new", Undefined, NoCursor, FALSE, 0, "none", NoRes)
  /\ dirty = {}
  /\ flights = {}
  /\ TreeIdle

\* ------------------------------------------------ blocks.children.list

\* No operation of the cache changes the upstream content or the options.
Frame == UNCHANGED <<world, upEdit, useFs, flights, treeVars>>

StorageErr(st) == IF useFs /\ st # "ok" THEN "storage" ELSE "none"

ListHit(blockId, cursor) ==
  LET key == cacheKey(blockId, cursor)
  IN /\ canUseCache(blockId)
     /\ Has(blockChildrenListCache, key)
     /\ last' = LastList(blockId, cursor, TRUE, 0, "none", blockChildrenListCache[key].res)
     /\ dirty' = dirty \ {blockId}
     /\ fresh' = FALSE
     /\ Frame
     /\ UNCHANGED <<memVars, diskVars>>

ListMiss(blockId, cursor) ==
  ~(canUseCache(blockId) /\ Has(blockChildrenListCache, cacheKey(blockId, cursor)))

\* A handler that drops the key's entry when the upstream call fails.
ListFailDropping(blockId, cursor) ==
  /\ ListMiss(blockId, cursor)
  /\ blockChildrenListCache' = Del(blockChildrenListCache, {cacheKey(blockId, cursor)})
  /\ last' = LastList(blockId, cursor, FALSE, 1, "upstream", NoRes)
  /\ dirty' = dirty \ {blockId}
  /\ fresh' = FALSE
  /\ Frame
  /\ UNCHANGED <<databaseCache, databaseQueryCache, pageCache, updatedAtMap,
                 cacheUpdatedAtMap, parentMap, diskVars>>

\* base.blocks.children.list rejects: the error leaves the handler at line 174.
ListFail(blockId, cursor) ==
  /\ ListMiss(blockId, cursor)
  /\ last' = LastList(blockId, cursor, FALSE, 1, "upstream", NoRes)
  /\ dirty' = dirty \ {blockId}
  /\ fresh' = FALSE
  /\ Frame
  /\ UNCHANGED <<memVars, diskVars>>

\* parentMap.set(block.id, blockId) for every result that has children.
setParents(pm, res, blockId) ==
  LET kids == {b.id : b \in {r \in res.results : r.has_children}}
  IN [x \in (DOMAIN pm) \cup kids |-> IF x \in kids THEN blockId ELSE pm[x]]

\* A fetch that stores the response without recording under which edit time.
ListFetchUnstamped(blockId, cursor, st) ==
  LET key == cacheKey(blockId, cursor)
      res == UpList(blockId, cursor)
      anchor == findParent(blockId)
      entry == [res |-> res, anchor |-> anchor,
                under |-> IF anchor = Undefined THEN 0 ELSE Obs(anchor), disk |-> FALSE,
                purged |-> FALSE]
      pm == setParents(parentMap, res, blockId)
  IN /\ ListMiss(blockId, cursor)
     /\ blockChildrenListCache' = Put(blockChildrenListCache, key, entry)
     /\ UNCHANGED cacheUpdatedAtMap
     /\ parentMap' = pm
     /\ metaFile' = IF useFs /\ st # "failMeta" THEN metaContent(updatedAtMap, pm) ELSE metaFile
     /\ blockFiles' = IF useFs /\ st = "ok"
                      THEN Put(blockFiles, blocksFile(key),
                               [res |-> res, anchor |-> anchor, under |-> entry.under,
                                purged |-> FALSE])
                      ELSE blockFiles
     /\ last' = LastList(blockId, cursor, FALSE, 1, StorageErr(st), res)
     /\ dirty' = dirty \ {blockId}
     /\ fresh' = FALSE
     /\ Frame
     /\ UNCHANGED <<databaseCache, databaseQueryCache, pageCache, updatedAtMap, dsFiles>>

ListFetch(blockId, cursor, st) ==
  LET key == cacheKey(blockId, cursor)
      res == UpList(blockId, cursor)
      anchor == findParent(blockId)
      entry == [res |-> res, anchor |-> anchor,
                under |-> IF anchor = Undefined THEN 0 ELSE Obs(anchor), disk |-> FALSE,
                purged |-> FALSE]
      pm == setParents(parentMap, res, blockId)
  IN /\ ListMiss(blockId, cursor)
     /\ blockChildrenListCache' = Put(blockChildrenListCache, key, entry)
     /\ cacheUpdatedAtMap' = IF Has(updatedAtMap, blockId)
                             THEN Put(cacheUpdatedAtMap, blockId, updatedAtMap[blockId])
                             ELSE cacheUpdatedAtMap
     /\ parentMap' = pm
     /\ metaFile' = IF useFs /\ st # "failMeta" THEN metaContent(updatedAtMap, pm) ELSE metaFile
     /\ blockFiles' = IF useFs /\ st = "ok"
                      THEN Put(blockFiles, blocksFile(key),
                               [res |-> res, anchor |-> anchor, under |-> entry.under,
                                purged |-> FALSE])
                      ELSE blockFiles
     /\ last' = LastList(blockId, cursor, FALSE, 1, StorageErr(st), res)
     /\ dirty' = dirty \ {blockId}
     /\ fresh' = FALSE
     /\ Frame
     /\ UNCHANGED <<databaseCache, databaseQueryCache, pageCache, updatedAtMap, dsFiles>>

\* listChildren up to its await: the cache read misses and the request goes
\* upstream, which answers it with the content it has then.  The call keeps its
\* arguments; as history it keeps the anchor and the observed edit times of now.
ListIssue(blockId, cursor) ==
  LET anchor == findParent(blockId)
      flight == [id |-> blockId, cursor |-> cursor, res |-> UpList(blockId, cursor),
                 anchor |-> anchor,
                 under |-> IF anchor = Undefined THEN 0 ELSE Obs(anchor),
                 obs |-> Obs(blockId)]
  IN /\ ListMiss(blockId, cursor)
     /\ Cardinality(flights) < MaxFlights
     /\ flight \notin flights
     /\ flights' = flights \cup {flight}
     /\ last' = [LastList(blockId, cursor, FALSE, 1, "none", NoRes) EXCEPT !.op = "issue"]
     /\ fresh' = FALSE
     /\ UNCHANGED <<world, upEdit, useFs, memVars, diskVars, dirty, treeVars>>

\* listChildren after its await: the response arrives and the rest of the handler
\* runs, with the maps as they are now.
ListReturn(f, st) ==
  LET key == cacheKey(f.id, f.cursor)
      entry == [res |-> f.res, anchor |-> f.anchor, under |-> f.under, disk |-> FALSE,
                purged |-> FALSE]
      pm == setParents(parentMap, f.res, f.id)
  IN /\ f \in flights
     /\ flights' = flights \ {f}
     /\ blockChildrenListCache' = Put(blockChildrenListCache, key, entry)
     /\ cacheUpdatedAtMap' = IF Has(updatedAtMap, f.id)
                             THEN Put(cacheUpdatedAtMap, f.id, updatedAtMap[f.id])
                             ELSE cacheUpdatedAtMap
     /\ parentMap' = pm
     /\ metaFile' = IF useFs /\ st # "failMeta" THEN metaContent(updatedAtMap, pm) ELSE metaFile
     /\ blockFiles' = IF useFs /\ st = "ok"
                      THEN Put(blockFiles, blocksFile(key),
                               [res |-> f.res, anchor |-> f.anchor, under |-> f.under,
                                purged |-> FALSE])
                      ELSE blockFiles
     /\ last' = [LastList(f.id, f.cursor, FALSE, 1, StorageErr(st), f.res) EXCEPT
                   !.obs = f.obs]
     /\ dirty' = dirty \ {f.id}
     /\ fresh' = FALSE
     /\ UNCHANGED <<world, upEdit, useFs, treeVars>>
     /\ UNCHANGED <<databaseCache, databaseQueryCache, pageCache, updatedAtMap, dsFiles>>

\* The requests a caller makes: an existing node, and a cursor that upstream hands out.
Requests == {<<n, c>> \in world.nodes \X Cursors : c = NoCursor \/ n \in world.more}

\* ------------------------------------------------------ dataSources.query

QueryHit(c) ==
  LET key == cacheKey(DbId, c)
  IN /\ Has(databaseQueryCache, key)
     /\ last' = Last("query", DbId, c, TRUE, 0, "none", databaseQueryCache[key])
     /\ fresh' = FALSE
     /\ Frame
     /\ UNCHANGED <<memVars, diskVars, dirty>>

\* base.dataSources.query rejects: the error leaves the handler at line 140.
QueryFail(c) ==
  /\ ~Has(databaseQueryCache, cacheKey(DbId, c))
  /\ last' = Last("query", DbId, c, FALSE, 1, "upstream", NoRes)
  /\ fresh' = FALSE
  /\ Frame
  /\ UNCHANGED <<memVars, diskVars, dirty>>

\* updatedAtMap.set(p.id, lastEditedTime) for every page of the response.
setUpdatedAt(uam, res) ==
  LET ps == {p \in res.results : p.object = "page"}
  IN [x \in (DOMAIN uam) \cup {p.id : p \in ps} |->
        IF \E p \in ps : p.id = x
        THEN getLastEditedTime(CHOOSE p \in ps : p.id = x)
        ELSE uam[x]]

\* A query that returns the response without memoizing it.
QueryFetchUnmemoized(c, st) ==
  LET key == cacheKey(DbId, c)
      res == UpQuery(c)
      uam == setUpdatedAt(updatedAtMap, res)
      changed == {x \in DOMAIN updatedAtMap : uam[x] # updatedAtMap[x]}
  IN /\ ~Has(databaseQueryCache, key)
     /\ UNCHANGED databaseQueryCache
     /\ updatedAtMap' = uam
     /\ metaFile' = IF useFs /\ st = "ok" THEN metaContent(uam, parentMap) ELSE metaFile
     /\ last' = Last("query", DbId, c, FALSE, 1, StorageErr(st), res)
     /\ dirty' = dirty \cup {n \in Ids : nearestTracked(n) \in changed}
     /\ fresh' = FALSE
     /\ Frame
     /\ UNCHANGED <<blockChildrenListCache, databaseCache, pageCache, cacheUpdatedAtMap,
                    parentMap, blockFiles, dsFiles>>

QueryFetch(c, st) ==
  LET key == cacheKey(DbId, c)
      res == UpQuery(c)
      uam == setUpdatedAt(updatedAtMap, res)
      changed == {x \in DOMAIN updatedAtMap : uam[x] # updatedAtMap[x]}
  IN /\ ~Has(databaseQueryCache, key)
     /\ databaseQueryCache' = Put(databaseQueryCache, key, res)
     /\ updatedAtMap' = uam
     /\ metaFile' = IF useFs /\ st = "ok" THEN metaContent(uam, parentMap) ELSE metaFile
     /\ last' = Last("query", DbId, c, FALSE, 1, StorageErr(st), res)
     /\ dirty' = dirty \cup {n \in Ids : nearestTracked(n) \in changed}
     /\ fresh' = FALSE
     /\ Frame
     /\ UNCHANGED <<blockChildrenListCache, databaseCache, pageCache, cacheUpdatedAtMap,
                    parentMap, blockFiles, dsFiles>>


\* --------------------------------------------------- dataSources.retrieve

RetrieveCollectionHit ==
  /\ Has(databaseCache, DbId)
  /\ last' = Last("retrieve", DbId, NoCursor, TRUE, 0, "none", databaseCache[DbId])
  /\ fresh' = FALSE
  /\ Frame
  /\ UNCHANGED <<memVars, diskVars, dirty>>

RetrieveCollectionFail ==
  /\ ~Has(databaseCache, DbId)
  /\ last' = Last("retrieve", DbId, NoCursor, FALSE, 1, "upstream", NoRes)
  /\ fresh' = FALSE
  /\ Frame
  /\ UNCHANGED <<memVars, diskVars, dirty>>

RetrieveCollectionFetch(st) ==
  /\ ~Has(databaseCache, DbId)
  /\ databaseCache' = Put(databaseCache, DbId, UpDataSource)
  /\ metaFile' = IF useFs /\ st # "failMeta" THEN metaContent(updatedAtMap, parentMap)
                 ELSE metaFile
  /\ dsFiles' = IF useFs /\ st = "ok" THEN dsFiles \cup {DbId} ELSE dsFiles
  /\ last' = Last("retrieve", DbId, NoCursor, FALSE, 1, StorageErr(st), UpDataSource)
  /\ fresh' = FALSE
  /\ Frame
  /\ UNCHANGED <<blockChildrenListCache, databaseQueryCache, pageCache, updatedAtMap,
                 cacheUpdatedAtMap, parentMap, blockFiles, dirty>>


\* --------------------------------------------------------- pages.retrieve

RetrieveNodeHit(pageId) ==
  /\ Has(pageCache, pageId)
  /\ last' = Last("page", pageId, NoCursor, TRUE, 0, "none", pageCache[pageId])
  /\ fresh' = FALSE
  /\ Frame
  /\ UNCHANGED <<memVars, diskVars, dirty>>

RetrieveNodeFail(pageId) ==
  /\ ~Has(pageCache, pageId)
  /\ last' = Last("page", pageId, NoCursor, FALSE, 1, "upstream", NoRes)
  /\ fresh' = FALSE
  /\ Frame
  /\ UNCHANGED <<memVars, diskVars, dirty>>

RetrieveNodeFetch(pageId) ==
  /\ ~Has(pageCache, pageId)
  /\ pageCache' = Put(pageCache, pageId, UpPage(pageId))
  /\ last' = Last("page", pageId, NoCursor, FALSE, 1, "none", UpPage(pageId))
  /\ fresh' = FALSE
  /\ Frame
  /\ UNCHANGED <<blockChildrenListCache, databaseCache, databaseQueryCache, updatedAtMap,
                 cacheUpdatedAtMap, parentMap, diskVars, dirty>>


\* ------------------------------------------------------------- purgeCache

\* The maps purgeCache clears; cacheUpdatedAtMap is not among them.  rm = "fail":
\* fs.promises.rm rejects and the error leaves purgeCache.
PurgeCache(rm) ==
  /\ blockChildrenListCache' = EmptyMap
  /\ databaseCache' = EmptyMap
  /\ databaseQueryCache' = EmptyMap
  /\ pageCache' = EmptyMap
  /\ updatedAtMap' = EmptyMap
  /\ parentMap' = EmptyMap
  /\ UNCHANGED cacheUpdatedAtMap
  /\ IF useFs /\ rm = "ok"
     THEN metaFile' = NoMeta /\ blockFiles' = EmptyMap /\ dsFiles' = {}
     ELSE UNCHANGED diskVars
  /\ last' = Last("purgeAll", Undefined, NoCursor, FALSE, 0,
                  IF useFs /\ rm = "fail" THEN "storage" ELSE "none", NoRes)
  /\ fresh' = FALSE
  /\ Frame
  /\ UNCHANGED dirty

\* --------------------------------------------------------- purgeCacheById

\* key.startsWith(targetId) || key.startsWith(`${targetId}_`), for some target.
matchesTarget(key, allIds) ==
  \E targetId \in allIds : startsWith(key, targetId) \/ startsWith(key, targetId \o <<"_">>)

\* kept: the files whose unlink failed (swallowed), all of them when readdir failed;
\* they stay, marked as files that a purge meant to delete.
PurgeById(id, kept, st) ==
  IF walkChildren(id, 1).overflow
  THEN /\ kept = {}
       /\ last' = Last("purge", id, NoCursor, FALSE, 0, "overflow", NoRes)
       /\ fresh' = FALSE
       /\ Frame
       /\ UNCHANGED <<memVars, diskVars, dirty>>
  ELSE
  LET allIds == {id} \cup allChildrenIds(id)
      keysToDelete == {key \in DOMAIN blockChildrenListCache : matchesTarget(key, allIds)}
      filesToDelete == {file \in DOMAIN blockFiles :
                          isBlocksFile(file) /\ matchesTarget(keyOfFile(file), allIds)}
      uam == Del(updatedAtMap, allIds)
      pm == Del(parentMap, allIds)
  IN /\ kept \subseteq filesToDelete
     /\ updatedAtMap' = uam
     /\ cacheUpdatedAtMap' = Del(cacheUpdatedAtMap, allIds)
     /\ parentMap' = pm
     /\ blockChildrenListCache' = Del(blockChildrenListCache, keysToDelete)
     /\ blockFiles' = IF useFs
                      THEN [file \in (DOMAIN blockFiles) \ (filesToDelete \ kept) |->
                              IF file \in kept
                              THEN [blockFiles[file] EXCEPT !.purged = TRUE]
                              ELSE blockFiles[file]]
                      ELSE blockFiles
     /\ metaFile' = IF useFs /\ st = "ok" THEN metaContent(uam, pm) ELSE metaFile
     /\ last' = Last("purge", id, NoCursor, FALSE, 0, StorageErr(st), NoRes)
        /\ fresh' = FALSE
        /\ Frame
     /\ UNCHANGED <<databaseCache, databaseQueryCache, pageCache, dsFiles, dirty>>


\* -------------------------------------------------------------- loadCache

\* The entries the block files of the directory give: key -> content.
loadedBlocks ==
  LET files == {file \in DOMAIN blockFiles : isBlocksFile(file)}
  IN [key \in {keyOfFile(file) : file \in files} |->
        LET file == CHOOSE f \in files : keyOfFile(f) = key
        IN [res |-> blockFiles[file].res, anchor |-> blockFiles[file].anchor,
            under |-> blockFiles[file].under, disk |-> TRUE,
            purged |-> blockFiles[file].purged]]

\* meta.version || 1
metaVersion(meta) == IF meta.version = 0 THEN 1 ELSE meta.version

\* rd: which read fails ("failDir": readdir, "failMeta": meta.json, "failBlock": a
\* blocks file); st: whether the migration's meta write fails; rm: whether the rm of
\* purgeCache fails.
LoadCache(rd, st, rm) ==
  LET hasMeta == rd # "failDir" /\ metaFile # NoMeta
      metaOk == hasMeta /\ rd # "failMeta"
      cua == IF metaOk THEN metaFile.updatedAt ELSE cacheUpdatedAtMap
      pm == IF metaOk THEN metaFile.parents ELSE parentMap
      cacheVersion == metaVersion(metaFile)
      migrate == metaOk /\ cacheVersion < CACHE_VERSION
      migrateWrites == migrate /\ cacheVersion = 1
      migrateFails == migrateWrites /\ st = "failMeta"
      newer == metaOk /\ cacheVersion > CACHE_VERSION
      metaAfter == IF migrateWrites /\ ~migrateFails THEN metaContent(updatedAtMap, pm)
                   ELSE metaFile
      blockFails == /\ rd = "failBlock"
                    /\ ~newer
                    /\ ~migrateFails
                    /\ \E file \in DOMAIN blockFiles : isBlocksFile(file)
      purge == \/ rd = "failDir"
               \/ (hasMeta /\ rd = "failMeta")
               \/ migrateFails
               \/ newer
               \/ blockFails
  IN /\ fresh
     /\ fresh' = FALSE
     /\ Frame
        /\ UNCHANGED dirty
     /\ IF ~useFs
        THEN /\ UNCHANGED <<memVars, diskVars>>
             /\ last' = Last("load", Undefined, NoCursor, FALSE, 0, "none", [cold |-> FALSE, migrated |-> FALSE])
        ELSE IF purge
        THEN /\ blockChildrenListCache' = EmptyMap
             /\ databaseCache' = EmptyMap
             /\ databaseQueryCache' = EmptyMap
             /\ pageCache' = EmptyMap
             /\ updatedAtMap' = EmptyMap
             /\ parentMap' = EmptyMap
             /\ cacheUpdatedAtMap' = cua
             /\ IF rm = "ok"
                THEN metaFile' = NoMeta /\ blockFiles' = EmptyMap /\ dsFiles' = {}
                ELSE metaFile' = metaAfter /\ UNCHANGED <<blockFiles, dsFiles>>
             /\ last' = Last("load", Undefined, NoCursor, FALSE, 0,
                             IF rm = "ok" THEN "none" ELSE "storage", [cold |-> TRUE, migrated |-> FALSE])
        ELSE /\ blockChildrenListCache' = loadedBlocks
             /\ cacheUpdatedAtMap' = cua
             /\ parentMap' = pm
             /\ databaseQueryCache' = IF migrateWrites THEN EmptyMap ELSE databaseQueryCache
             /\ metaFile' = metaAfter
             /\ last' = Last("load", Undefined, NoCursor, FALSE, 0, "none",
                             [cold |-> FALSE, migrated |-> migrate])
             /\ UNCHANGED <<databaseCache, pageCache, updatedAtMap, blockFiles, dsFiles>>

\* ------------------------------------------------------------ environment

\* The process ends (at any point) and a later run constructs a new CacheClient.
NewProcess ==
  /\ ~fresh
  /\ fresh' = TRUE
  /\ blockChildrenListCache' = EmptyMap
  /\ databaseCache' = EmptyMap
  /\ databaseQueryCache' = EmptyMap
  /\ pageCache' = EmptyMap
  /\ updatedAtMap' = EmptyMap
  /\ cacheUpdatedAtMap' = EmptyMap
  /\ parentMap' = EmptyMap
  /\ last' = Last("new", Undefined, NoCursor, FALSE, 0, "none", NoRes)
  /\ dirty' = {}
  /\ flights' = {}
  /\ UNCHANGED <<world, upEdit, useFs, diskVars, treeVars>>

\* Between two runs the directory was last written by another release of the
\* program: the same records, with that release's version number (0: no version
\* field, as the first release wrote it).
OtherRelease(v) ==
  /\ fresh
  /\ useFs
  /\ metaFile # NoMeta
  /\ metaFile.version = CACHE_VERSION
  /\ metaFile' = [metaFile EXCEPT !.version = v]
  /\ last' = Last("release", Undefined, NoCursor, FALSE, 0, "none", NoRes)
  /\ UNCHANGED <<world, upEdit, useFs, memVars, blockFiles, dsFiles, fresh, dirty, flights,
                 treeVars>>

\* A page is edited upstream.
Edit(p) ==
  /\ upEdit[p] < MaxTime
  /\ upEdit' = [upEdit EXCEPT ![p] = upEdit[p] + 1]
  /\ last' = Last("edit", p, NoCursor, FALSE, 0, "none", NoRes)
  /\ UNCHANGED <<world, useFs, memVars, diskVars, fresh, dirty, flights, treeVars>>

\* ============================================================ hierarchy
\* The tree builder (hierarchy.ts).  Strings are sequences of symbols: an ID is a
\* sequence of characters, "/" and "-" are characters, "index" and ".." are one symbol.

\* null, and the empty string, which the code treats alike (`parentId && ...`).
Null == <<>>

\* post.parentId === undefined
NotSet == <<"undefined">>

ShortIdLength == 8

\* Pages of the data source: P and Q differ only after their first 8 characters.
PageP == <<"0", "0", "0", "0", "-", "0", "0", "0", "0", "-", "p">>
PageQ == <<"0", "0", "0", "0", "0", "0", "0", "0", "-", "q">>
PageR == <<"1", "1", "1", "1", "-", "1", "1", "1", "1", "-", "r">>

\* A page that the query did not return (unpublished or filtered out).
PageGone == <<"g">>

\* Pages that exist only as nested pages of other pages.
PageS == <<"s">>
PageT == <<"t">>

Slash == <<"/">>
IndexSlug == <<"index">>
DotDot == <<"..">>
Dot == <<".">>

\* id.replace(/-/g, "").slice(0, 8)
shortId(id) ==
  LET plain == SelectSeq(id, LAMBDA ch : ch # "-")
  IN SubSeq(plain, 1, IF Len(plain) < ShortIdLength THEN Len(plain) ELSE ShortIdLength)

\* `${slug}-${shortId}`
suffixed(slug, id) == slug \o <<"-">> \o shortId(id)

SlugA == <<"a">>
SlugAR == suffixed(SlugA, PageR)

\* A Post, as far as the builders read and write it: rel is the relation property
\* in additionalProperties, a list of page references.
Post(id, slug, rel) ==
  [id |-> id, slug |-> slug, parentId |-> NotSet, rel |-> rel,
   pathSegments |-> <<>>, childIds |-> <<>>]

\* The node a builder creates for a post.
NewNode(post, parentId) ==
  [post |-> post, parentId |-> parentId, children |-> <<>>, pathSegments |-> <<>>,
   depth |-> 0]

\* A Map with its insertion order: keys in the order of their first set.
NoNodes == [keys |-> <<>>, at |-> EmptyMap]

nodeMapSet(nm, id, node) ==
  [keys |-> IF Has(nm.at, id) THEN nm.keys ELSE Append(nm.keys, id),
   at |-> Put(nm.at, id, node)]

\* What a builder works on: the node map and the log of console.warn.
Warn(kind, id) == [kind |-> kind, id |-> id]

RECURSIVE createNodes(_, _, _)
createNodes(ps, i, nm) ==
  IF i > Len(ps) THEN nm
  ELSE createNodes(ps, i + 1, nodeMapSet(nm, ps[i].id, NewNode(ps[i], Null)))

\* The parent a post names, and whether the relation had more than one reference.
getParentIdFromPost(post) ==
  IF post.parentId # NotSet THEN [id |-> post.parentId, many |-> FALSE]
  ELSE IF Len(post.rel) > 0 /\ post.rel[1] # Null
       THEN [id |-> post.rel[1], many |-> Len(post.rel) > 1]
       ELSE [id |-> Null, many |-> FALSE]

\* A linking that takes the parent a post names without looking it up.
RECURSIVE linkParentsUnchecked(_, _, _)
linkParentsUnchecked(ps, i, b) ==
  IF i > Len(ps) THEN b
  ELSE LET got == getParentIdFromPost(ps[i])
       IN linkParentsUnchecked(ps, i + 1,
            [b EXCEPT !.nodeMap.at[ps[i].id].parentId = got.id])

\* The loop that establishes the parent links, from post i on.
RECURSIVE linkParents(_, _, _)
linkParents(ps, i, b) ==
  IF i > Len(ps) THEN b
  ELSE LET got == getParentIdFromPost(ps[i])
           parentId == got.id
           w1 == IF got.many THEN Append(b.warnings, Warn("multiple", ps[i].id))
                 ELSE b.warnings
           id == ps[i].id
       IN IF parentId # Null /\ Has(b.nodeMap.at, parentId)
          THEN linkParents(ps, i + 1,
                 [nodeMap |-> [b.nodeMap EXCEPT !.at[id].parentId = parentId],
                  warnings |-> w1])
          ELSE IF parentId # Null
          THEN linkParents(ps, i + 1,
                 [nodeMap |-> [b.nodeMap EXCEPT !.at[id].parentId = Null],
                  warnings |-> Append(w1, Warn("orphan", id))])
          ELSE linkParents(ps, i + 1, [nodeMap |-> b.nodeMap, warnings |-> w1])

\* A traversal that never reports a node on the stack.
dfsBlind(nodeId, d) == [d |-> [d EXCEPT !.visited = @ \cup {nodeId}], found |-> FALSE]

\* A traversal that reports a cycle to every caller on the stack, each of which
\* breaks its own link.
RECURSIVE dfsBreakingAll(_, _)
dfsBreakingAll(nodeId, d) ==
  IF nodeId \in d.inStack THEN [d |-> d, found |-> TRUE]
  ELSE IF nodeId \in d.visited THEN [d |-> d, found |-> FALSE]
  ELSE LET d1 == [d EXCEPT !.visited = @ \cup {nodeId}, !.inStack = @ \cup {nodeId}]
           parentId == IF Has(d1.b.nodeMap.at, nodeId)
                       THEN d1.b.nodeMap.at[nodeId].parentId ELSE Null
           r == IF parentId = Null THEN [d |-> d1, found |-> FALSE]
                ELSE dfsBreakingAll(parentId, d1)
           d2 == IF r.found
                 THEN [r.d EXCEPT
                         !.b.nodeMap.at[nodeId].parentId = Null,
                         !.b.warnings = Append(@, Warn("cycle", nodeId))]
                 ELSE r.d
       IN [d |-> [d2 EXCEPT !.inStack = @ \ {nodeId}], found |-> r.found]

\* dfs of detectAndBreakCycles on d = [b, visited, inStack]: the state after the call
\* and the value it returns.
RECURSIVE dfs(_, _)
dfs(nodeId, d) ==
  IF nodeId \in d.inStack THEN [d |-> d, found |-> TRUE]
  ELSE IF nodeId \in d.visited THEN [d |-> d, found |-> FALSE]
  ELSE LET d1 == [d EXCEPT !.visited = @ \cup {nodeId}, !.inStack = @ \cup {nodeId}]
           parentId == IF Has(d1.b.nodeMap.at, nodeId)
                       THEN d1.b.nodeMap.at[nodeId].parentId ELSE Null
           d2 == IF parentId = Null THEN d1
                 ELSE LET r == dfs(parentId, d1)
                      IN IF r.found
                         THEN [r.d EXCEPT
                                 !.b.nodeMap.at[nodeId].parentId = Null,
                                 !.b.warnings = Append(@, Warn("cycle", nodeId))]
                         ELSE r.d
       IN [d |-> [d2 EXCEPT !.inStack = @ \ {nodeId}], found |-> FALSE]

RECURSIVE dfsAll(_, _, _)
dfsAll(keys, i, d) ==
  IF i > Len(keys) THEN d ELSE dfsAll(keys, i + 1, dfs(keys[i], d).d)

detectAndBreakCycles(b) ==
  dfsAll(b.nodeMap.keys, 1, [b |-> b, visited |-> {}, inStack |-> {}]).b

\* The loop that fills roots and children, over nodeMap.values() from key i on.
RECURSIVE linkChildren(_, _, _)
linkChildren(nm, i, roots) ==
  IF i > Len(nm.keys) THEN [nodeMap |-> nm, roots |-> roots]
  ELSE LET id == nm.keys[i]
           parentId == nm.at[id].parentId
       IN IF parentId = Null THEN linkChildren(nm, i + 1, Append(roots, id))
          ELSE IF Has(nm.at, parentId)
          THEN linkChildren([nm EXCEPT !.at[parentId].children = Append(@, id)], i + 1, roots)
          ELSE linkChildren(nm, i + 1, roots)

\* computePaths(nodes, parentPath) from node i on, on the nodes `at`.
RECURSIVE computePaths(_, _, _, _)
computePaths(at, nodes, i, parentPath) ==
  IF i > Len(nodes) THEN at
  ELSE LET id == nodes[i]
           pathSegments == Append(parentPath, at[id].post.slug)
           at1 == [at EXCEPT ![id].pathSegments = pathSegments,
                             ![id].depth = Len(pathSegments) - 1]
       IN computePaths(computePaths(at1, at1[id].children, 1, pathSegments),
                       nodes, i + 1, parentPath)

\* The keys of slugMap in insertion order: the slugs of nodes from i on, each once.
RECURSIVE slugsInOrder(_, _, _, _)
slugsInOrder(at, nodes, i, seen) ==
  IF i > Len(nodes) THEN seen
  ELSE LET slug == at[nodes[i]].post.slug
       IN slugsInOrder(at, nodes, i + 1,
                       IF \E k \in 1..Len(seen) : seen[k] = slug THEN seen
                       ELSE Append(seen, slug))

\* pathSegments.slice(0, -1)
dropLast(segs) == IF Len(segs) = 0 THEN <<>> ELSE SubSeq(segs, 1, Len(segs) - 1)

\* A renaming that leaves the paths below the renamed nodes as they were.
RECURSIVE renameDupesShallow(_, _, _, _)
renameDupesShallow(at, dupes, i, slug) ==
  IF i > Len(dupes) THEN at
  ELSE LET id == dupes[i]
           renamed == suffixed(slug, at[id].post.id)
           pathSegments == Append(dropLast(at[id].pathSegments), renamed)
       IN renameDupesShallow(
            [at EXCEPT ![id].post.slug = renamed, ![id].pathSegments = pathSegments],
            dupes, i + 1, slug)

\* The renaming of the members of one group of duplicates, from member i on.
RECURSIVE renameDupes(_, _, _, _)
renameDupes(at, dupes, i, slug) ==
  IF i > Len(dupes) THEN at
  ELSE LET id == dupes[i]
           renamed == suffixed(slug, at[id].post.id)
           pathSegments == Append(dropLast(at[id].pathSegments), renamed)
           at1 == [at EXCEPT ![id].post.slug = renamed, ![id].pathSegments = pathSegments]
       IN renameDupes(computePaths(at1, at1[id].children, 1, pathSegments), dupes, i + 1, slug)

\* A loop that leaves the first member of a group of duplicates with its slug.
RECURSIVE resolveGroupsKeepingFirst(_, _, _, _, _)
resolveGroupsKeepingFirst(b, at0, nodes, slugs, j) ==
  IF j > Len(slugs) THEN b
  ELSE LET slug == slugs[j]
           dupes == SelectSeq(nodes, LAMBDA id : at0[id].post.slug = slug)
       IN IF Len(dupes) > 1
          THEN resolveGroupsKeepingFirst(
                 [nodeMap |-> [b.nodeMap EXCEPT
                                 !.at = renameDupes(b.nodeMap.at, Tail(dupes), 1, slug)],
                  warnings |-> Append(b.warnings, Warn("duplicate", slug))],
                 at0, nodes, slugs, j + 1)
          ELSE resolveGroupsKeepingFirst(b, at0, nodes, slugs, j + 1)

\* The loop over slugMap, from its j-th key on; groups as they were when slugMap
\* was filled (at0).
RECURSIVE resolveGroups(_, _, _, _, _)
resolveGroups(b, at0, nodes, slugs, j) ==
  IF j > Len(slugs) THEN b
  ELSE LET slug == slugs[j]
           dupes == SelectSeq(nodes, LAMBDA id : at0[id].post.slug = slug)
       IN IF Len(dupes) > 1
          THEN resolveGroups(
                 [nodeMap |-> [b.nodeMap EXCEPT
                                 !.at = renameDupes(b.nodeMap.at, dupes, 1, slug)],
                  warnings |-> Append(b.warnings, Warn("duplicate", slug))],
                 at0, nodes, slugs, j + 1)
          ELSE resolveGroups(b, at0, nodes, slugs, j + 1)

RECURSIVE resolveSlugDuplicates(_, _)
RECURSIVE resolveChildren(_, _, _)

\* The final loop of resolveSlugDuplicates: the recursion into the children.
resolveChildren(b, nodes, i) ==
  IF i > Len(nodes) THEN b
  ELSE resolveChildren(resolveSlugDuplicates(b, b.nodeMap.at[nodes[i]].children),
                       nodes, i + 1)

resolveSlugDuplicates(b, nodes) ==
  LET at0 == b.nodeMap.at
      b1 == resolveGroups(b, at0, nodes, slugsInOrder(at0, nodes, 1, <<>>), 1)
  IN resolveChildren(b1, nodes, 1)

\* A synchronisation that leaves childIds as it was.
updatePostsWithoutChildIds(nm) ==
  [nm EXCEPT !.at = [id \in DOMAIN nm.at |->
     [nm.at[id] EXCEPT !.post.parentId = nm.at[id].parentId,
                       !.post.pathSegments = nm.at[id].pathSegments]]]

updatePostsFromTree(nm) ==
  [nm EXCEPT !.at = [id \in DOMAIN nm.at |->
     [nm.at[id] EXCEPT !.post.parentId = nm.at[id].parentId,
                       !.post.pathSegments = nm.at[id].pathSegments,
                       !.post.childIds = nm.at[id].children]]]

\* The caller's list holds the Post objects that the nodes hold.
postsOf(ps, nm) == [i \in 1..Len(ps) |-> nm.at[ps[i].id].post]

\* computePaths, resolveSlugDuplicates and updatePostsFromTree, which end every builder.
finishTree(b, roots) ==
  LET b1 == [b EXCEPT !.nodeMap.at = computePaths(b.nodeMap.at, roots, 1, <<>>)]
      b2 == resolveSlugDuplicates(b1, roots)
  IN [tree |-> [built |-> TRUE, roots |-> roots, nodeMap |-> updatePostsFromTree(b2.nodeMap)],
      warnings |-> b2.warnings]

buildRelationTree(ps) ==
  LET b0 == [nodeMap |-> createNodes(ps, 1, NoNodes), warnings |-> <<>>]
      b1 == detectAndBreakCycles(linkParents(ps, 1, b0))
      linked == linkChildren(b1.nodeMap, 1, <<>>)
  IN finishTree([nodeMap |-> linked.nodeMap, warnings |-> b1.warnings], linked.roots)

\* ------------------------------------------------------ subpage discovery

\* The characters of the titles of nested pages.
Upper == {"A", "B"}
WordChars == {"a", "b", "_"} \cup Upper
Space == {" "}

\* text.toLowerCase()
toLowerCase(text) ==
  [k \in 1..Len(text) |-> IF text[k] = "A" THEN "a" ELSE IF text[k] = "B" THEN "b" ELSE text[k]]

\* text.replace(/[set]+/g, "-"): every run of characters of the set becomes one hyphen.
RECURSIVE replaceRuns(_, _)
replaceRuns(text, set) ==
  IF Len(text) = 0 THEN <<>>
  ELSE IF text[1] \notin set THEN <<text[1]>> \o replaceRuns(Tail(text), set)
  ELSE IF Len(text) > 1 /\ text[2] \in set THEN replaceRuns(Tail(text), set)
  ELSE <<"-">> \o replaceRuns(Tail(text), set)

\* text.replace(/^-+|-+$/g, "")
RECURSIVE trimHyphens(_)
trimHyphens(text) ==
  IF Len(text) = 0 THEN <<>>
  ELSE IF text[1] = "-" THEN trimHyphens(Tail(text))
  ELSE IF text[Len(text)] = "-" THEN trimHyphens(SubSeq(text, 1, Len(text) - 1))
  ELSE text

slugify(text) ==
  LET kept == SelectSeq(toLowerCase(text), LAMBDA c : c \in WordChars \cup Space \cup {"-"})
      slug == trimHyphens(replaceRuns(kept, Space \cup {"_"}))
  IN IF slug # <<>> THEN slug ELSE replaceRuns(toLowerCase(text), Space)

\* A block of a listing.
ChildPage(id) == [id |-> id, type |-> "child_page"]
Paragraph == [id |-> <<"x">>, type |-> "paragraph"]

\* The titles of the nested pages, and the nested pages that have the properties of
\* a page of the data source (isValidPage), with the slug buildPost gives them.
TitleOf(id) == IF id = PageS THEN <<"A">> ELSE <<"A", " ", "!">>
ValidPages == {PageS}
buildPost(id) == Post(id, SlugA, <<>>)

\* The Post made for a nested page whose retrieval succeeded.
childPostOf(childPageId) ==
  IF childPageId \in ValidPages THEN buildPost(childPageId)
  ELSE Post(childPageId, slugify(TitleOf(childPageId)), <<>>)

\* A loop over the blocks that ends at the first nested page that cannot be retrieved.
RECURSIVE scanBlocksStopping(_, _, _, _, _)
scanBlocksStopping(parentId, blocks, i, s, up) ==
  IF i > Len(blocks) THEN s
  ELSE LET block == blocks[i]
           childPageId == block.id
       IN IF block.type # "child_page" THEN scanBlocksStopping(parentId, blocks, i + 1, s, up)
          ELSE IF Has(s.nodeMap.at, childPageId)
          THEN IF s.nodeMap.at[childPageId].parentId = Null
               THEN scanBlocksStopping(parentId, blocks, i + 1,
                      [s EXCEPT !.nodeMap.at[childPageId].parentId = parentId,
                                !.nodeMap.at[parentId].children = Append(@, childPageId)],
                      up)
               ELSE scanBlocksStopping(parentId, blocks, i + 1, s, up)
          ELSE IF childPageId \in up.fails
          THEN [s EXCEPT !.warnings = Append(@, Warn("retrieve", childPageId))]
          ELSE LET childPost == childPostOf(childPageId)
                   nm == nodeMapSet(s.nodeMap, childPageId, NewNode(childPost, parentId))
               IN scanBlocksStopping(parentId, blocks, i + 1,
                    [nodeMap |-> [nm EXCEPT !.at[parentId].children = Append(@, childPageId)],
                     posts |-> Append(s.posts, childPost),
                     warnings |-> s.warnings,
                     found |-> Append(s.found, [id |-> childPageId, parentId |-> parentId])],
                    up)

\* A loop that gives every page that is in the tree already its new parent.
RECURSIVE scanBlocksReparenting(_, _, _, _, _)
scanBlocksReparenting(parentId, blocks, i, s, up) ==
  IF i > Len(blocks) THEN s
  ELSE LET block == blocks[i]
           childPageId == block.id
       IN IF block.type # "child_page" THEN scanBlocksReparenting(parentId, blocks, i + 1, s, up)
          ELSE IF Has(s.nodeMap.at, childPageId)
          THEN scanBlocksReparenting(parentId, blocks, i + 1,
                 [s EXCEPT !.nodeMap.at[childPageId].parentId = parentId,
                           !.nodeMap.at[parentId].children = Append(@, childPageId)],
                 up)
          ELSE IF childPageId \in up.fails
          THEN scanBlocksReparenting(parentId, blocks, i + 1,
                 [s EXCEPT !.warnings = Append(@, Warn("retrieve", childPageId))], up)
          ELSE LET childPost == childPostOf(childPageId)
                   nm == nodeMapSet(s.nodeMap, childPageId, NewNode(childPost, parentId))
               IN scanBlocksReparenting(parentId, blocks, i + 1,
                    [nodeMap |-> [nm EXCEPT !.at[parentId].children = Append(@, childPageId)],
                     posts |-> Append(s.posts, childPost),
                     warnings |-> s.warnings,
                     found |-> Append(s.found, [id |-> childPageId, parentId |-> parentId])],
                    up)

\* The loop over blocksRes.results from block i on, on s = [nodeMap, posts, warnings,
\* found]; up is the upstream.
RECURSIVE scanBlocks(_, _, _, _, _)
scanBlocks(parentId, blocks, i, s, up) ==
  IF i > Len(blocks) THEN s
  ELSE LET block == blocks[i]
           childPageId == block.id
       IN IF block.type # "child_page" THEN scanBlocks(parentId, blocks, i + 1, s, up)
          ELSE IF Has(s.nodeMap.at, childPageId)
          THEN IF s.nodeMap.at[childPageId].parentId = Null
               THEN scanBlocks(parentId, blocks, i + 1,
                      [s EXCEPT !.nodeMap.at[childPageId].parentId = parentId,
                                !.nodeMap.at[parentId].children = Append(@, childPageId)],
                      up)
               ELSE scanBlocks(parentId, blocks, i + 1, s, up)
          ELSE IF childPageId \in up.fails
          THEN scanBlocks(parentId, blocks, i + 1,
                 [s EXCEPT !.warnings = Append(@, Warn("retrieve", childPageId))], up)
          ELSE LET childPost == childPostOf(childPageId)
                   nm == nodeMapSet(s.nodeMap, childPageId, NewNode(childPost, parentId))
               IN scanBlocks(parentId, blocks, i + 1,
                    [nodeMap |-> [nm EXCEPT !.at[parentId].children = Append(@, childPageId)],
                     posts |-> Append(s.posts, childPost),
                     warnings |-> s.warnings,
                     found |-> Append(s.found, [id |-> childPageId, parentId |-> parentId])],
                    up)

\* A scan that makes the node of a nested page and leaves the caller's list alone.
scanAndKeepList(parentId, s, up) ==
  IF ~Has(s.nodeMap.at, parentId) \/ parentId \in up.listFails \/ ~Has(up.list, parentId)
  THEN s
  ELSE [scanBlocks(parentId, up.list[parentId][1], 1, s, up) EXCEPT !.posts = s.posts]

\* The listing is asked for without a cursor: the first page of the child blocks.
scanAndAddChildPages(parentId, s, up) ==
  IF ~Has(s.nodeMap.at, parentId) THEN s
  ELSE IF parentId \in up.listFails \/ ~Has(up.list, parentId) THEN s
  ELSE scanBlocks(parentId, up.list[parentId][1], 1, s, up)

\* for (const post of posts) over the list as it grows, from post i on.
RECURSIVE scanPosts(_, _, _)
scanPosts(s, i, up) ==
  IF i > Len(s.posts) THEN s
  ELSE scanPosts(scanAndAddChildPages(s.posts[i].id, s, up), i + 1, up)

\* The nodes without a parent, in the order of nodeMap.values().
rootsOf(nm) == SelectSeq(nm.keys, LAMBDA id : nm.at[id].parentId = Null)

\* What a scanning builder returns: the tree, the log, the caller's list and the history.
finishScan(s) ==
  LET r == finishTree([nodeMap |-> s.nodeMap, warnings |-> s.warnings], rootsOf(s.nodeMap))
  IN [tree |-> r.tree, warnings |-> r.warnings,
      posts |-> [i \in 1..Len(s.posts) |-> r.tree.nodeMap.at[s.posts[i].id].post],
      found |-> s.found]

buildSubpageTree(ps, up) ==
  finishScan(scanPosts([nodeMap |-> createNodes(ps, 1, NoNodes), posts |-> ps,
                        warnings |-> <<>>, found |-> <<>>], 1, up))

buildBothTree(ps, up) ==
  LET r == buildRelationTree(ps)
  IN finishScan(scanPosts([nodeMap |-> r.tree.nodeMap, posts |-> postsOf(ps, r.tree.nodeMap),
                           warnings |-> r.warnings, found |-> <<>>], 1, up))

\* ------------------------------------------------ queries on a built tree

\* segs.join("/")
RECURSIVE join(_)
join(segs) ==
  IF Len(segs) = 0 THEN <<>>
  ELSE IF Len(segs) = 1 THEN segs[1]
  ELSE segs[1] \o Slash \o join(Tail(segs))

\* str.split("/"): the pieces between the separators, at least one piece.
RECURSIVE split(_)
split(str) ==
  IF \A k \in 1..Len(str) : str[k] # "/" THEN <<str>>
  ELSE LET k == CHOOSE j \in 1..Len(str) : str[j] = "/" /\ \A m \in 1..(j - 1) : str[m] # "/"
       IN <<SubSeq(str, 1, k - 1)>> \o split(SubSeq(str, k + 1, Len(str)))

\* dir.replace(/\/$/, "")
stripSlash(dir) ==
  IF Len(dir) > 0 /\ dir[Len(dir)] = "/" THEN SubSeq(dir, 1, Len(dir) - 1) ELSE dir

getHierarchyDir(postId, t) ==
  IF ~Has(t.nodeMap.at, postId) THEN <<>>
  ELSE LET node == t.nodeMap.at[postId]
       IN IF Len(node.children) > 0 THEN join(node.pathSegments) \o Slash
          ELSE IF Len(node.pathSegments) <= 1 THEN <<>>
          ELSE join(dropLast(node.pathSegments)) \o Slash

getEffectiveSlug(postId, t) ==
  IF ~Has(t.nodeMap.at, postId) THEN <<>>
  ELSE LET node == t.nodeMap.at[postId]
       IN IF Len(node.children) > 0 THEN IndexSlug ELSE node.post.slug

getAbsoluteHierarchyPath(postId, t) ==
  IF ~Has(t.nodeMap.at, postId) THEN <<>> ELSE join(t.nodeMap.at[postId].pathSegments)

\* The length of the common prefix of two lists of segments.
RECURSIVE commonPrefix(_, _, _)
commonPrefix(fromParts, toParts, common) ==
  IF common < Len(fromParts) /\ common < Len(toParts)
     /\ fromParts[common + 1] = toParts[common + 1]
  THEN commonPrefix(fromParts, toParts, common + 1)
  ELSE common

\* No fromPost was given.
NoPost == [none |-> TRUE]

computeRelativePath(fromPost, toPost, t) ==
  IF fromPost = NoPost THEN getAbsoluteHierarchyPath(toPost.id, t)
  ELSE LET fromDir == getHierarchyDir(fromPost.id, t)
           toDir == getHierarchyDir(toPost.id, t)
           effective == getEffectiveSlug(toPost.id, t)
           toSlug == IF effective # <<>> THEN effective
                     ELSE IF toPost.slug # <<>> THEN toPost.slug ELSE toPost.id
           fromParts == IF fromDir # <<>> THEN split(stripSlash(fromDir)) ELSE <<>>
           toParts == IF toDir # <<>> THEN split(stripSlash(toDir)) ELSE <<>>
           common == commonPrefix(fromParts, toParts, 0)
           ups == Len(fromParts) - common
           downs == SubSeq(toParts, common + 1, Len(toParts))
           parts == [i \in 1..ups |-> DotDot] \o downs
       IN IF toSlug = IndexSlug
          THEN IF join(parts) # <<>> THEN join(parts) ELSE Dot
          ELSE IF join(Append(parts, toSlug)) # <<>> THEN join(Append(parts, toSlug))
               ELSE toSlug

\* ------------------------------------------------- tree builder actions

cacheVars == <<world, upEdit, useFs, memVars, diskVars, fresh, last, dirty, flights>>

\* A CacheClient that is constructed and not used.
CacheIdle ==
  /\ world = WorldLeaf
  /\ upEdit = [p \in world.pages |-> 1]
  /\ useFs = FALSE
  /\ blockChildrenListCache = EmptyMap
  /\ databaseCache = EmptyMap
  /\ databaseQueryCache = EmptyMap
  /\ pageCache = EmptyMap
  /\ updatedAtMap = EmptyMap
  /\ cacheUpdatedAtMap = EmptyMap
  /\ parentMap = EmptyMap
  /\ metaFile = NoMeta
  /\ blockFiles = EmptyMap
  /\ dsFiles = {}
  /\ fresh = TRUE
  /\ last = Last("new", Undefined, NoCursor, FALSE, 0, "none", NoRes)
  /\ dirty = {}
  /\ flights = {}

TreePages == {PageP, PageQ, PageR}

Slugs == {SlugA, IndexSlug, SlugAR}

\* The page lists a caller passes: pages of the data source, each once, in any order,
\* with any slug, each naming no parent, a page of the data source (itself included)
\* or a page outside the list.
PostInputs ==
  {Post(id, slug, rel) : id \in TreePages, slug \in Slugs,
                         rel \in {<<>>} \cup {<<x>> : x \in TreePages \cup {PageGone}}}

PageLists ==
  {ps \in UNION {[1..n -> PostInputs] : n \in 1..Cardinality(TreePages)} :
     \A i, j \in 1..Len(ps) : ps[i].id = ps[j].id => i = j}

BuildRelation ==
  /\ ~tree.built
  /\ LET r == buildRelationTree(posts)
     IN /\ tree' = [r.tree EXCEPT !.built = TRUE]
        /\ warnings' = r.warnings
        /\ posts' = postsOf(posts, r.tree.nodeMap)
  /\ UNCHANGED <<site, link, found, download, cacheVars>>

\* A caller asks for the link from one page of the list (or from none) to another.
RelativePath(from, to) ==
  /\ tree.built
  /\ link = NoLink
  /\ from \in 0..Len(posts) /\ to \in 1..Len(posts)
  /\ link' = [from |-> IF from = 0 THEN Null ELSE posts[from].id,
              to |-> posts[to].id,
              path |-> computeRelativePath(IF from = 0 THEN NoPost ELSE posts[from],
                                           posts[to], tree)]
  /\ UNCHANGED <<posts, site, tree, warnings, found, download, cacheVars>>

\* The pages of the data source whose blocks are scanned, and what the upstream holds
\* below them: listings in pages of results, listings that fail, nested pages that
\* cannot be retrieved.
ScanPages == {PageP, PageQ}

NestedPages == {PageS, PageT}

ListingsOf(id) ==
  IF id \in ScanPages
  THEN {<<<<>>>>,
        <<<<ChildPage(PageS)>>>>,
        <<<<ChildPage(PageS), ChildPage(PageT)>>>>,
        <<<<Paragraph, ChildPage(PageT)>>, <<ChildPage(PageS)>>>>,
        <<<<ChildPage(PageS), ChildPage(PageS)>>>>,
        <<<<ChildPage(CHOOSE other \in ScanPages : other # id)>>>>}
  ELSE IF id = PageS
  THEN {<<<<>>>>, <<<<ChildPage(PageT)>>>>, <<<<ChildPage(PageP)>>>>, <<<<ChildPage(PageS)>>>>}
  ELSE {<<<<>>>>, <<<<ChildPage(PageS)>>>>}

Sites ==
  {[list |-> l, listFails |-> lf, fails |-> f] :
     l \in {g \in [ScanPages \cup NestedPages -> UNION {ListingsOf(id) : id \in ScanPages \cup NestedPages}] :
              \A id \in DOMAIN g : g[id] \in ListingsOf(id)},
     lf \in {{}, {PageQ}},
     f \in SUBSET NestedPages}

ScanInputs ==
  {Post(id, SlugA, rel) : id \in ScanPages, rel \in {<<>>} \cup {<<x>> : x \in ScanPages}}

ScanLists ==
  {ps \in UNION {[1..n -> ScanInputs] : n \in 1..Cardinality(ScanPages)} :
     \A i, j \in 1..Len(ps) : ps[i].id = ps[j].id => i = j}

BuildSubpage ==
  /\ ~tree.built
  /\ LET r == buildSubpageTree(posts, site)
     IN /\ tree' = r.tree
        /\ warnings' = r.warnings
        /\ posts' = r.posts
        /\ found' = r.found
  /\ UNCHANGED <<site, link, download, cacheVars>>

BuildBoth ==
  /\ ~tree.built
  /\ LET r == buildBothTree(posts, site)
     IN /\ tree' = r.tree
        /\ warnings' = r.warnings
        /\ posts' = r.posts
        /\ found' = r.found
  /\ UNCHANGED <<site, link, download, cacheVars>>

\* ------------------------------------------------- downloadAssetsWithRetry

\* errorMessage.includes(pattern)
includes(text, pattern) ==
  \E i \in 0..(Len(text) - Len(pattern)) :
    \A k \in 1..Len(pattern) : text[i + k] = pattern[k]

Status403 == <<"4", "0", "3">>

\* The messages of the errors a download attempt or a call of the client throws.
MsgForbidden == <<"c", "o", "d", "e", " ", "4", "0", "3">>
MsgPort == <<"p", "o", "r", "t", " ", "1", "4", "0", "3", "0">>
MsgTimeout == <<"t", "i", "m", "e", "o", "u", "t">>
MsgNotFound == <<"c", "o", "d", "e", " ", "4", "0", "4", " ", "3">>
MsgStorage == <<"E", "A", "C", "C", "E", "S">>
Messages == {MsgForbidden, MsgPort, MsgTimeout, MsgNotFound}

\* Asset maps (url -> file), as the set of their urls; NoAssets is null or undefined.
AssetMap(urls) == [present |-> TRUE, urls |-> urls]
NoAssets == [present |-> FALSE, urls |-> {}]
OldAssets == AssetMap({"old.jpg"})
FreshAssets == AssetMap({"fresh.jpg"})
AssetMaps == {NoAssets, AssetMap({}), OldAssets, FreshAssets}

\* What a call returned: it resolved, or rejected with an error.
Resolved == [ok |-> TRUE]
Rejected(message) == [ok |-> FALSE, message |-> message]

Called(op, arg) == [op |-> op, arg |-> arg]

\* A call that has not returned.
Pending == [pending |-> TRUE]

\* downloadAssetsWithRetry(assets, postId, client, options) is called and makes its
\* first attempt.
DownloadCall(assets, postId) ==
  /\ download.pc = "idle"
  /\ download' = [pc |-> "first", assets |-> assets, postId |-> postId,
                  calls |-> <<Called("downloadAssets", assets)>>,
                  first |-> Pending, purged |-> Pending, content |-> Pending,
                  result |-> Pending]
  /\ UNCHANGED <<posts, site, tree, warnings, link, found, cacheVars>>

\* A continuation that purges the cache of the post after every failed attempt.
FirstAttemptPurgesAlways(outcome) ==
  /\ download.pc = "first"
  /\ download' =
       IF outcome.ok THEN [download EXCEPT !.pc = "done", !.first = outcome, !.result = Resolved]
       ELSE [download EXCEPT !.pc = "purge", !.first = outcome,
                             !.calls = Append(@, Called("purgeCacheById", download.postId))]
  /\ UNCHANGED <<posts, site, tree, warnings, link, found, cacheVars>>

\* The first attempt returns; on an error with 403 in its message the cache of the
\* post is purged.
FirstAttemptReturns(outcome) ==
  /\ download.pc = "first"
  /\ download' =
       IF outcome.ok THEN [download EXCEPT !.pc = "done", !.first = outcome, !.result = Resolved]
       ELSE IF includes(outcome.message, Status403)
       THEN [download EXCEPT !.pc = "purge", !.first = outcome,
                             !.calls = Append(@, Called("purgeCacheById", download.postId))]
       ELSE [download EXCEPT !.pc = "done", !.first = outcome, !.result = outcome]
  /\ UNCHANGED <<posts, site, tree, warnings, link, found, cacheVars>>

\* client.purgeCacheById returns; the content of the post is fetched again.
PurgeReturns(outcome) ==
  /\ download.pc = "purge"
  /\ download' =
       IF outcome.ok
       THEN [download EXCEPT !.pc = "get", !.purged = outcome,
                             !.calls = Append(@, Called("getPostContent", download.postId))]
       ELSE [download EXCEPT !.pc = "done", !.purged = outcome, !.result = outcome]
  /\ UNCHANGED <<posts, site, tree, warnings, link, found, cacheVars>>

\* The content of getPostContent, as far as it is read.
Content(assets) == [ok |-> TRUE, assets |-> assets]

\* A continuation that attempts the download again with the assets of the call.
GetPostContentRetriesOriginal(outcome) ==
  /\ download.pc = "get"
  /\ download' =
       IF ~outcome.ok THEN [download EXCEPT !.pc = "done", !.content = outcome, !.result = outcome]
       ELSE IF outcome.assets.present /\ Cardinality(outcome.assets.urls) > 0
       THEN [download EXCEPT !.pc = "retry", !.content = outcome,
                             !.calls = Append(@, Called("downloadAssets", download.assets))]
       ELSE [download EXCEPT !.pc = "done", !.content = outcome, !.result = Resolved]
  /\ UNCHANGED <<posts, site, tree, warnings, link, found, cacheVars>>

\* client.getPostContent returns; with assets in the fresh content the download is
\* attempted again.
GetPostContentReturns(outcome) ==
  /\ download.pc = "get"
  /\ download' =
       IF ~outcome.ok THEN [download EXCEPT !.pc = "done", !.content = outcome, !.result = outcome]
       ELSE IF outcome.assets.present /\ Cardinality(outcome.assets.urls) > 0
       THEN [download EXCEPT !.pc = "retry", !.content = outcome,
                             !.calls = Append(@, Called("downloadAssets", outcome.assets))]
       ELSE [download EXCEPT !.pc = "done", !.content = outcome, !.result = Resolved]
  /\ UNCHANGED <<posts, site, tree, warnings, link, found, cacheVars>>

\* A continuation that starts over after a second attempt that failed with 403.
RetryReturnsRetrying(outcome) ==
  /\ download.pc = "retry"
  /\ download' =
       IF ~outcome.ok /\ includes(outcome.message, Status403)
       THEN [download EXCEPT !.pc = "purge",
                             !.calls = Append(@, Called("purgeCacheById", download.postId))]
       ELSE [download EXCEPT !.pc = "done", !.result = outcome]
  /\ UNCHANGED <<posts, site, tree, warnings, link, found, cacheVars>>

\* The second attempt returns; its error is thrown to the caller.
RetryReturns(outcome) ==
  /\ download.pc = "retry"
  /\ download' = [download EXCEPT !.pc = "done", !.result = outcome]
  /\ UNCHANGED <<posts, site, tree, warnings, link, found, cacheVars>>

\* --------------------------------------------------------- specifications

\* One process, no cache directory, no failing call.
Step ==
  \/ \E r \in Requests : ListHit(r[1], r[2])
  \/ \E r \in Requests : ListFetch(r[1], r[2], "ok")
  \/ \E c \in Cursors : QueryHit(c)
  \/ \E c \in Cursors : QueryFetch(c, "ok")
  \/ \E id \in world.nodes : PurgeById(id, {}, "ok")
  \/ PurgeCache("ok")
  \/ \E p \in world.edited : Edit(p)

Next == Step

InitMemory ==
  Init /\ useFs = FALSE /\ world \in {WorldChain, WorldSiblings, WorldNested, WorldLeaf}

Spec == InitMemory /\ [][Next]_vars

\* Several runs over one cache directory: a run may end at any point, the next one
\* starts with loadCache or without; files may fail to be read or to be deleted.
NextFs ==
  \/ \E r \in Requests : ListHit(r[1], r[2])
  \/ \E r \in Requests : ListFetch(r[1], r[2], "ok")
  \/ \E c \in Cursors : QueryHit(c)
  \/ \E c \in Cursors : QueryFetch(c, "ok")
  \/ \E id \in world.nodes, kept \in SUBSET (DOMAIN blockFiles) : PurgeById(id, kept, "ok")
  \/ PurgeCache("ok")
  \/ \E rd \in {"ok", "failDir", "failMeta", "failBlock"} : LoadCache(rd, "ok", "ok")
  \/ NewProcess
  \/ \E v \in {0, CACHE_VERSION - 1, CACHE_VERSION + 1} : OtherRelease(v)
  \/ \E p \in world.edited : Edit(p)

InitFs == Init /\ useFs = TRUE /\ world = WorldPair

SpecFs == InitFs /\ [][NextFs]_vars

\* One run with a cache directory in which every upstream call and every write of a
\* file may fail, over content that is not edited.
NextFaults ==
  \/ \E r \in Requests : ListHit(r[1], r[2])
  \/ \E r \in Requests : ListFail(r[1], r[2])
  \/ \E r \in Requests, st \in {"ok", "failMeta", "failEntry"} : ListFetch(r[1], r[2], st)
  \/ \E c \in Cursors : QueryHit(c)
  \/ \E c \in Cursors : QueryFail(c)
  \/ \E c \in Cursors, st \in {"ok", "failMeta"} : QueryFetch(c, st)
  \/ RetrieveCollectionHit
  \/ RetrieveCollectionFail
  \/ \E st \in {"ok", "failMeta", "failEntry"} : RetrieveCollectionFetch(st)
  \/ \E p \in world.pages : RetrieveNodeHit(p)
  \/ \E p \in world.pages : RetrieveNodeFail(p)
  \/ \E p \in world.pages : RetrieveNodeFetch(p)
  \/ \E id \in world.nodes, kept \in SUBSET (DOMAIN blockFiles), st \in {"ok", "failMeta"} :
        PurgeById(id, kept, st)

InitFaults == Init /\ useFs = TRUE /\ world = WorldLeaf

SpecFaults == InitFaults /\ [][NextFaults]_vars

\* The relation builder on every page list, and the links between the pages of
\* the tree it returns.
NextTree ==
  \/ BuildRelation
  \/ \E from \in 0..Cardinality(TreePages), to \in 1..Cardinality(TreePages) :
       RelativePath(from, to)

InitTree ==
  CacheIdle /\ posts \in PageLists /\ site = NoSite /\ tree = NoTree /\ warnings = <<>>
  /\ link = NoLink /\ found = <<>> /\ download = NoDownload

SpecTree == InitTree /\ [][NextTree]_vars

\* One process without a cache directory, on an upstream whose listings give the
\* ParentIndex a cycle.
InitLoops == Init /\ useFs = FALSE /\ world \in {WorldLoop, WorldSelf, WorldChain}

SpecLoops == InitLoops /\ [][Next]_vars

\* One process without a cache directory whose callers do not wait for one call to
\* return before they make the next: a listChildren call may be at its await while
\* other calls run.
NextConcurrent ==
  \/ \E r \in Requests : ListHit(r[1], r[2])
  \/ \E r \in Requests : ListIssue(r[1], r[2])
  \/ \E f \in flights : ListReturn(f, "ok")
  \/ \E c \in Cursors : QueryHit(c)
  \/ \E c \in Cursors : QueryFetch(c, "ok")
  \/ \E p \in world.edited : Edit(p)

InitConcurrent == Init /\ useFs = FALSE /\ world \in {WorldLeaf, WorldPair}

SpecConcurrent == InitConcurrent /\ [][NextConcurrent]_vars

\* One process without a cache directory on content that is not edited, whose caller
\* queries the data source before it lists the blocks of a page and purges the
\* subtree of a node when it likes.
Queried == databaseQueryCache # EmptyMap

NextPurge ==
  \/ \E c \in Cursors : QueryHit(c)
  \/ \E c \in Cursors : QueryFetch(c, "ok")
  \/ \E r \in Requests : Queried /\ ListHit(r[1], r[2])
  \/ \E r \in Requests : Queried /\ ListFetch(r[1], r[2], "ok")
  \/ \E id \in world.nodes : Queried /\ PurgeById(id, {}, "ok")

InitPurge == Init /\ useFs = FALSE /\ world \in {WorldLeaf, WorldPair}

SpecPurge == InitPurge /\ [][NextPurge]_vars

\* One process without a cache directory on an upstream that has a page whose ID is
\* the ID of another page, "_" and the cursor of that page's listing.
InitKeys == Init /\ useFs = FALSE /\ world = WorldUnderscore

SpecKeys == InitKeys /\ [][Next]_vars

\* One call of downloadAssetsWithRetry with a client and a downloader that return
\* or throw as they like.
Outcomes == {Resolved} \cup {Rejected(m) : m \in Messages}

NextDownload ==
  \/ \E assets \in AssetMaps, postId \in TreePages : DownloadCall(assets, postId)
  \/ \E outcome \in Outcomes : FirstAttemptReturns(outcome)
  \/ \E outcome \in {Resolved, Rejected(MsgStorage)} : PurgeReturns(outcome)
  \/ \E outcome \in {Content(a) : a \in AssetMaps} \cup {Rejected(MsgTimeout)} :
       GetPostContentReturns(outcome)
  \/ \E outcome \in Outcomes : RetryReturns(outcome)

InitDownload == CacheIdle /\ TreeIdle

SpecDownload == InitDownload /\ [][NextDownload]_vars

\* The same call when every pending call of the client and of the downloader settles:
\* each awaited promise resolves or rejects.
SpecDownloadSettling == InitDownload /\ [][NextDownload]_vars /\ WF_vars(NextDownload)

\* The three builders, on every upstream of Sites.
NextScan == BuildSubpage \/ BuildBoth \/ BuildRelation

InitScan ==
  CacheIdle /\ posts \in ScanLists /\ site \in Sites /\ tree = NoTree /\ warnings = <<>>
  /\ link = NoLink /\ found = <<>> /\ download = NoDownload

SpecScan == InitScan /\ [][NextScan]_vars

\* ----------------------------------------------------------------- claims

\* The k-th node above n in the ParentIndex (n itself when there is none).
RECURSIVE Up(_, _)
Up(n, k) ==
  IF k = 0 THEN n
  ELSE LET m == Up(n, k - 1) IN IF Has(parentMap, m) THEN parentMap[m] ELSE m

\* The node without recorded parent that n's upward chain ends in, if it ends.
Anchor(n) ==
  LET top == Up(n, Cardinality(DOMAIN parentMap))
  IN IF Has(parentMap, top) THEN Undefined ELSE top

\* id and the nodes that have id on their upward chain.
Subtree(id) ==
  {id} \cup {n \in DOMAIN parentMap : \E k \in 1..Cardinality(DOMAIN parentMap) : Up(n, k) = id}

LastKey == cacheKey(last.id, last.cursor)

\* C1: a listing that listChildren returns from the cache was fetched after the latest
\* change of the observed edit time of its anchor: the entry returned by a hit was
\* fetched under the anchor's current observed edit time.
C1_RefetchedAfterChange ==
  (last.op = "list" /\ last.hit /\ ~blockChildrenListCache[LastKey].disk
     /\ blockChildrenListCache[LastKey].anchor = Anchor(last.id)
     /\ blockChildrenListCache[LastKey].under # 0)
  => blockChildrenListCache[LastKey].under = Obs(Anchor(last.id))

\* C2: a persisted listing that a later run loads and returns from the cache was
\* fetched under the anchor's current observed edit time.
C2_PersistedNeverStale ==
  (last.op = "list" /\ last.hit /\ blockChildrenListCache[LastKey].disk
     /\ blockChildrenListCache[LastKey].anchor = Anchor(last.id)
     /\ blockChildrenListCache[LastKey].under # 0)
  => blockChildrenListCache[LastKey].under = Obs(Anchor(last.id))

\* C3: after the observed edit time of a node's nearest tracked ancestor changed, the
\* next listChildren call for the node is a miss.
C3_ChangeForcesMiss == (last.op = "list" /\ last.stale) => ~last.hit

C5_HitIffValid ==
  [][last'.op = "list" =>
       LET n == last'.id
           key == cacheKey(n, last'.cursor)
           a == Anchor(n)
           valid == /\ Has(blockChildrenListCache, key)
                    /\ a # Undefined
                    /\ Has(updatedAtMap, a) /\ Has(cacheUpdatedAtMap, a)
                    /\ updatedAtMap[a] = cacheUpdatedAtMap[a]
       IN /\ last'.hit <=> valid
          /\ last'.hit => /\ last'.calls = 0
                          /\ last'.res = blockChildrenListCache[key].res
                          /\ UNCHANGED <<memVars, diskVars>>
          /\ ~last'.hit => /\ last'.calls = 1
                           /\ last'.err = "none" =>
                                /\ last'.res = UpList(n, last'.cursor)
                                /\ Has(blockChildrenListCache', key)
                                /\ blockChildrenListCache'[key].res = last'.res]_vars

C5_Witness ==
  /\ last.op = "list" /\ last.hit /\ Has(parentMap, last.id)
  /\ last.res.ver < upEdit[world.pageOf[last.id]]

\* C6: purgeCacheById(id) removes the entries, timestamps and parent links of id and of
\* its descendants in the ParentIndex, and changes those of no other node.
C6_PurgeExact ==
  [][last'.op = "purge" =>
       LET gone == Subtree(last'.id)
       IN /\ \A n \in Ids, c \in Cursors :
               LET key == cacheKey(n, c)
               IN IF n \in gone THEN ~Has(blockChildrenListCache', key)
                  ELSE /\ Has(blockChildrenListCache', key) <=> Has(blockChildrenListCache, key)
                       /\ Has(blockChildrenListCache, key) =>
                            blockChildrenListCache'[key] = blockChildrenListCache[key]
          /\ \A n \in Ids :
               IF n \in gone
               THEN ~Has(updatedAtMap', n) /\ ~Has(cacheUpdatedAtMap', n) /\ ~Has(parentMap', n)
               ELSE /\ Has(updatedAtMap', n) <=> Has(updatedAtMap, n)
                    /\ Has(cacheUpdatedAtMap', n) <=> Has(cacheUpdatedAtMap, n)
                    /\ Has(parentMap', n) <=> Has(parentMap, n)]_vars

\* C7: listChildren never returns from the cache an entry that a purgeCacheById meant
\* to remove, in the run of the purge or in a later one.
C7_PurgedNeverServed ==
  (last.op = "list" /\ last.hit) => ~blockChildrenListCache[LastKey].purged

\* C8: no failing write of a cache file makes a call of list, query, retrieve or
\* purgeCacheById fail.
C8_StorageFailureSwallowed ==
  last.op \in {"list", "query", "retrieve", "purge"} => last.err # "storage"

\* C9: when the upstream call of an operation fails, the operation has called upstream
\* once, returns no result, and no map and no file of the cache changes.
C9_UpstreamFailureLeavesCache ==
  [][last'.err = "upstream" =>
       /\ last'.calls = 1
       /\ last'.res = NoRes
       /\ UNCHANGED <<memVars, diskVars>>]_vars

C9_Witness ==
  /\ last.err = "upstream" /\ last.op = "list" /\ last.calls = 1
  /\ Has(blockChildrenListCache, LastKey)
  /\ Has(updatedAtMap, last.id) /\ ~Has(cacheUpdatedAtMap, last.id)
  /\ metaFile # NoMeta

\* C10: a loadCache that finds a newer format version, or fails to read, and returns
\* leaves no entry, no timestamp, no parent link and no file.
C10_ColdAfterFailedLoad ==
  (last.op = "load" /\ last.res.cold /\ last.err = "none")
  => /\ blockChildrenListCache = EmptyMap
     /\ databaseCache = EmptyMap
     /\ databaseQueryCache = EmptyMap
     /\ pageCache = EmptyMap
     /\ updatedAtMap = EmptyMap
     /\ cacheUpdatedAtMap = EmptyMap
     /\ parentMap = EmptyMap
     /\ metaFile = NoMeta /\ blockFiles = EmptyMap /\ dsFiles = {}

\* C11: a loadCache that finds a metadata record of the previous format version, or
\* without version, keeps the parent links, the timestamps and the persisted entries,
\* in memory and in the metadata record, which it rewrites with the current version.
C11_MigrationPreserves ==
  [][(last'.op = "load" /\ last'.res.migrated) =>
       /\ parentMap' = metaFile.parents
       /\ cacheUpdatedAtMap' = metaFile.updatedAt
       /\ DOMAIN blockChildrenListCache' = {keyOfFile(file) : file \in DOMAIN blockFiles}
       /\ databaseQueryCache' = EmptyMap
       /\ blockFiles' = blockFiles
       /\ metaFile'.version = CACHE_VERSION
       /\ metaFile'.parents = metaFile.parents
       /\ metaFile'.updatedAt = metaFile.updatedAt]_vars

\* C12: purgeCache leaves every map of the cache empty and no file in the cache
\* directory, and raises no error.
C12_PurgeAllEmpties ==
  last.op = "purgeAll" =>
    /\ last.err = "none"
    /\ blockChildrenListCache = EmptyMap
    /\ databaseCache = EmptyMap
    /\ databaseQueryCache = EmptyMap
    /\ pageCache = EmptyMap
    /\ updatedAtMap = EmptyMap
    /\ cacheUpdatedAtMap = EmptyMap
    /\ parentMap = EmptyMap
    /\ metaFile = NoMeta /\ blockFiles = EmptyMap /\ dsFiles = {}

\* C13: a query whose key is memoized returns the memoized response, calls nothing and
\* changes nothing; a memoized response leaves the memo only by purgeCache or with
\* the process, and loadCache memoizes nothing, so the first query of a key in a
\* process goes upstream; a query that goes upstream memoizes the response and sets the
\* observed edit time of every page in it to the page's edit timestamp.
C13_QueryMemo ==
  [][/\ \A c \in Cursors :
          (Has(databaseQueryCache, cacheKey(DbId, c))
             /\ ~Has(databaseQueryCache', cacheKey(DbId, c)))
          => last'.op \in {"purgeAll", "new"}
     /\ last'.op \in {"new", "load"} => databaseQueryCache' = EmptyMap
     /\ last'.op = "query" =>
          LET key == cacheKey(DbId, last'.cursor)
          IN IF Has(databaseQueryCache, key)
             THEN /\ last'.hit /\ last'.calls = 0
                  /\ last'.res = databaseQueryCache[key]
                  /\ UNCHANGED <<memVars, diskVars>>
             ELSE /\ ~last'.hit /\ last'.calls = 1
                  /\ last'.res = UpQuery(last'.cursor)
                  /\ Has(databaseQueryCache', key)
                  /\ databaseQueryCache'[key] = last'.res
                  /\ \A p \in last'.res.results :
                       /\ Has(updatedAtMap', p.id)
                       /\ updatedAtMap'[p.id] = p.last_edited_time]_vars

C13_Witness ==
  /\ last.op = "query" /\ last.hit /\ last.calls = 0
  /\ \E p \in last.res.results : p.last_edited_time < upEdit[p.id]
  /\ metaFile # NoMeta /\ Has(blockChildrenListCache, IdA)

\* ------------------------------------------------------ claims on the tree

\* The parent the relation of the caller's list names for id, when it is in the list.
RelationParent(id) ==
  LET i == CHOOSE k \in 1..Len(posts) : posts[k].id = id
      named == IF Len(posts[i].rel) > 0 THEN posts[i].rel[1] ELSE Null
  IN IF \E k \in 1..Len(posts) : posts[k].id = named THEN named ELSE Null

RECURSIVE RelationUp(_, _)
RelationUp(id, k) ==
  IF k = 0 \/ id = Null THEN id ELSE RelationUp(RelationParent(id), k - 1)

\* id is on a cycle of the relation.
OnCycle(id) == \E k \in 1..Len(posts) : RelationUp(id, k) = id

\* The node k parentId links above id in the tree, Null above a root.
RECURSIVE TreeUp(_, _)
TreeUp(id, k) ==
  IF k = 0 \/ id = Null THEN id ELSE TreeUp(tree.nodeMap.at[id].parentId, k - 1)

Logged(kind, id) == \E k \in 1..Len(warnings) : warnings[k] = Warn(kind, id)

\* C14: buildRelationTree returns for every relation; of every cycle of the relation
\* one node at least is a root, with a warning; following parentId from any node of
\* the tree ends above a root after at most as many steps as there are nodes.
C14_CyclesBroken ==
  tree.built =>
    /\ \A id \in DOMAIN tree.nodeMap.at :
         /\ TreeUp(id, Len(posts)) = Null
         /\ \E k \in 0..(Len(posts) - 1) :
              \E r \in 1..Len(tree.roots) : tree.roots[r] = TreeUp(id, k)
    /\ \A id \in DOMAIN tree.nodeMap.at :
         OnCycle(id) =>
           \E k \in 1..Len(posts) :
             LET m == RelationUp(id, k)
             IN tree.nodeMap.at[m].parentId = Null /\ Logged("cycle", m)

C14_Witness ==
  /\ tree.built /\ Len(posts) = 3
  /\ \A i \in 1..3 : OnCycle(posts[i].id) /\ RelationParent(posts[i].id) # posts[i].id
  /\ \E i \in 1..3 : tree.nodeMap.at[posts[i].id].depth = 2

\* C15: after resolveSlugDuplicates no two nodes with the same parent (the roots being
\* one group) have the same slug, whatever the slugs and the IDs of the pages.
C15_SiblingSlugsDistinct ==
  tree.built =>
    \A x, y \in DOMAIN tree.nodeMap.at :
      (x # y /\ tree.nodeMap.at[x].parentId = tree.nodeMap.at[y].parentId)
        => tree.nodeMap.at[x].post.slug # tree.nodeMap.at[y].post.slug

\* C16: in the tree of buildRelationTree the pathSegments of a node are those of its
\* parent followed by the slug the node has after the renaming of duplicates (the slug
\* alone for a root), and depth is their length minus 1; so the renamed slug of a node
\* is in the pathSegments of all its descendants.
C16_PathSegments ==
  tree.built =>
    \A id \in DOMAIN tree.nodeMap.at :
      LET node == tree.nodeMap.at[id]
          parentPath == IF node.parentId = Null THEN <<>>
                        ELSE tree.nodeMap.at[node.parentId].pathSegments
      IN /\ node.pathSegments = Append(parentPath, node.post.slug)
         /\ node.depth = Len(node.pathSegments) - 1

C16_Witness ==
  /\ tree.built
  /\ Logged("duplicate", SlugA)
  /\ \E id \in DOMAIN tree.nodeMap.at :
       LET node == tree.nodeMap.at[id]
       IN /\ node.parentId \in {PageP, PageQ}
          /\ tree.nodeMap.at[node.parentId].post.slug = suffixed(SlugA, node.parentId)
          /\ node.pathSegments = <<suffixed(SlugA, node.parentId), node.post.slug>>

\* The IDs of the pages of the caller's list.
PostIds == {posts[i].id : i \in 1..Len(posts)}

\* C19: a page whose relation names a parent that is not a page of the list is a root
\* of the tree of buildRelationTree, with parentId null and a warning; the node map
\* has one node for each page of the list and no other.
C19_OrphanIsRoot ==
  tree.built =>
    /\ DOMAIN tree.nodeMap.at = PostIds
    /\ Len(tree.nodeMap.keys) = Len(posts)
    /\ \A i \in 1..Len(posts) : tree.nodeMap.at[posts[i].id].post.id = posts[i].id
    /\ \A i \in 1..Len(posts) :
         (Len(posts[i].rel) > 0 /\ posts[i].rel[1] \notin PostIds) =>
           /\ tree.nodeMap.at[posts[i].id].parentId = Null
           /\ \E r \in 1..Len(tree.roots) : tree.roots[r] = posts[i].id
           /\ Logged("orphan", posts[i].id)

C19_Witness ==
  /\ tree.built /\ Len(posts) = 2
  /\ posts[1].rel = <<PageGone>>
  /\ posts[2].rel = <<posts[1].id>>
  /\ tree.nodeMap.at[posts[1].id].children = <<posts[2].id>>
  /\ tree.roots = <<posts[1].id>>

\* generateFilename without the extension: the output directory and the effective slug.
outputPath(postId) == getHierarchyDir(postId, tree) \o getEffectiveSlug(postId, tree)

\* C17: in a built tree no two distinct nodes have the same output file path (the
\* directory of getHierarchyDir followed by the slug of getEffectiveSlug), a leaf
\* whose own slug is "index" included.
C17_OutputPathsDistinct ==
  tree.built =>
    \A x, y \in DOMAIN tree.nodeMap.at : x # y => outputPath(x) # outputPath(y)

\* The segments of an output directory.
dirParts(dir) == IF dir # <<>> THEN split(stripSlash(dir)) ELSE <<>>

\* The place a relative path leads to from a directory: ".." leaves the last segment,
\* "." stays, any other piece enters it.
RECURSIVE resolve(_, _)
resolve(at, pieces) ==
  IF Len(pieces) = 0 THEN at
  ELSE LET piece == pieces[1]
       IN resolve(IF piece = DotDot THEN dropLast(at)
                  ELSE IF piece = Dot \/ piece = <<>> THEN at
                  ELSE Append(at, piece),
                  Tail(pieces))

\* Where a page is written: its directory and its slug for a leaf, its own directory
\* for a page with children.
outputLocation(postId) ==
  LET node == tree.nodeMap.at[postId]
      dir == dirParts(getHierarchyDir(postId, tree))
  IN IF Len(node.children) > 0 THEN dir ELSE Append(dir, node.post.slug)

\* C18: for two nodes A and B of a tree, computeRelativePath(A, B) resolved against
\* the output directory of A is the output location of B.
C18_RelativePathResolves ==
  (link # NoLink /\ link.from # Null /\ link.from # link.to) =>
    resolve(dirParts(getHierarchyDir(link.from, tree)), split(link.path))
      = outputLocation(link.to)

\* The pages in whose first listing page there is a child_page block of id.
ListedUnder(id) ==
  {p \in DOMAIN site.list :
     \E k \in 1..Len(site.list[p][1]) : site.list[p][1][k] = ChildPage(id)}

\* C20: when buildSubpageTree or buildBothTree has returned, every nested page the
\* scan found is once in the caller's list and once in the node map, its parentId is
\* the node in whose listing its block was, and the IDs of the caller's list are the
\* keys of the node map.
C20_FoundPagesListed ==
  tree.built =>
    /\ \A k \in 1..Len(found) :
         /\ Cardinality({i \in 1..Len(posts) : posts[i].id = found[k].id}) = 1
         /\ Cardinality({i \in 1..Len(tree.nodeMap.keys) :
                           tree.nodeMap.keys[i] = found[k].id}) = 1
         /\ Has(tree.nodeMap.at, found[k].id)
         /\ tree.nodeMap.at[found[k].id].parentId = found[k].parentId
         /\ found[k].parentId \in ListedUnder(found[k].id)
         /\ \E c \in 1..Len(tree.nodeMap.at[found[k].parentId].children) :
              tree.nodeMap.at[found[k].parentId].children[c] = found[k].id
    /\ PostIds = DOMAIN tree.nodeMap.at
    /\ PostIds = {tree.nodeMap.keys[i] : i \in 1..Len(tree.nodeMap.keys)}

C20_Witness ==
  /\ tree.built
  /\ Len(found) = 2
  /\ found[1] = [id |-> PageS, parentId |-> PageP]
  /\ found[2] = [id |-> PageT, parentId |-> PageS]
  /\ Len(posts) = 3
  /\ tree.nodeMap.at[PageT].depth = 2

\* The pages of the caller's list whose listing was read, and the nested-page blocks
\* on the page of results the scan reads.
Scanned == {p \in PostIds : p \notin site.listFails /\ Has(site.list, p)}

BlocksOf(p) ==
  {site.list[p][1][k].id : k \in {n \in 1..Len(site.list[p][1]) :
                                     site.list[p][1][n].type = "child_page"}}

InChildren(id) ==
  \E p \in DOMAIN tree.nodeMap.at :
    \E c \in 1..Len(tree.nodeMap.at[p].children) : tree.nodeMap.at[p].children[c] = id

\* What a scan leaves of the nested-page blocks of the listings it read.
ScanSkipsFailed ==
  /\ tree.built
  /\ \A p \in Scanned :
       \A c \in BlocksOf(p) :
         IF c \in site.fails
         THEN /\ ~Has(tree.nodeMap.at, c)
              /\ ~InChildren(c)
              /\ c \notin PostIds
              /\ Logged("retrieve", c)
         ELSE Has(tree.nodeMap.at, c) /\ c \in PostIds /\ InChildren(c)

\* C21: a nested page whose retrieval fails during the scan is not in the node map,
\* not among the children of any node and not in the caller's list, a warning is
\* logged for it, the builder returns, and every other nested-page block of the same
\* listing and of the other pages has its node (after buildSubpageTree and after
\* buildBothTree, the builders that scan).
C21_FailedRetrieveSkipped == [][(BuildSubpage \/ BuildBoth) => ScanSkipsFailed']_vars

C21_Witness ==
  /\ tree.built
  /\ site.fails = {PageS}
  /\ site.list[PageP][1] = <<ChildPage(PageS), ChildPage(PageT)>>
  /\ PageP \in PostIds
  /\ Logged("retrieve", PageS)
  /\ found = <<[id |-> PageT, parentId |-> PageP]>>

\* child.post.id of the children of a node, in order.
childIdsOf(node) == [c \in 1..Len(node.children) |-> tree.nodeMap.at[node.children[c]].post.id]

\* C22: when a builder has returned, the page object of every node of the node map
\* (which is the object in the caller's list) has the parentId and the pathSegments
\* of the node, and as childIds the IDs of the node's children in order.
C22_PostsSynchronized ==
  tree.built =>
    /\ \A id \in DOMAIN tree.nodeMap.at :
         LET node == tree.nodeMap.at[id]
         IN /\ node.post.parentId = node.parentId
            /\ node.post.pathSegments = node.pathSegments
            /\ node.post.childIds = childIdsOf(node)
    /\ \A i \in 1..Len(posts) : posts[i] = tree.nodeMap.at[posts[i].id].post

C22_Witness ==
  /\ tree.built
  /\ Len(found) > 0
  /\ \E i, j \in 1..Len(posts) :
       /\ posts[i].rel = <<posts[j].id>> /\ posts[i].parentId = posts[j].id
       /\ posts[i].childIds = <<found[1].id>>
       /\ Len(posts[i].pathSegments) = 2

\* C23: a node with children is the index file of its own directory (the directory of
\* its pathSegments, effective slug "index"); a leaf has its own slug and is in the
\* directory of its parent, the empty directory for a root; an ID that is not in the
\* tree has the empty directory and the empty slug.
C23_DirAndSlug ==
  tree.built =>
    /\ \A id \in DOMAIN tree.nodeMap.at :
         LET node == tree.nodeMap.at[id]
         IN IF Len(node.children) > 0
            THEN /\ dirParts(getHierarchyDir(id, tree)) = node.pathSegments
                 /\ getEffectiveSlug(id, tree) = IndexSlug
            ELSE /\ getEffectiveSlug(id, tree) = node.post.slug
                 /\ getHierarchyDir(id, tree) =
                      IF node.parentId = Null THEN <<>>
                      ELSE getHierarchyDir(node.parentId, tree)
    /\ \A id \in {PageGone, PageR} \ DOMAIN tree.nodeMap.at :
         getHierarchyDir(id, tree) = <<>> /\ getEffectiveSlug(id, tree) = <<>>

\* Following parentId from id ends at a node of roots.
ReachesRoot(id) ==
  \E k \in 0..(Len(tree.nodeMap.keys) - 1) :
    /\ TreeUp(id, k) # Null
    /\ \E r \in 1..Len(tree.roots) : tree.roots[r] = TreeUp(id, k)

\* C27: in the tree a builder returns, following parentId from any node ends at a node
\* of roots (no cycle of parents is left, also when the block of a nested page puts a
\* root below one of its descendants), and every node has pathSegments that are not
\* empty, with depth their length minus 1.
C27_NoCycleSurvives ==
  tree.built =>
    \A id \in DOMAIN tree.nodeMap.at :
      /\ ReachesRoot(id)
      /\ Len(tree.nodeMap.at[id].pathSegments) > 0
      /\ tree.nodeMap.at[id].depth = Len(tree.nodeMap.at[id].pathSegments) - 1

\* The last piece of a path.
lastPiece(path) == split(path)[Len(split(path))]

\* C24: computeRelativePath never returns the empty string; for a target with children
\* the result leads to the directory of the target and does not end with the piece
\* "index", and it is "." exactly when the directories of the source and of the target
\* are the same; without a source the result is the pathSegments of the target, joined.
C24_RelativePathShape ==
  tree.built =>
    \A to \in 1..Len(posts) :
      /\ computeRelativePath(NoPost, posts[to], tree)
           = join(tree.nodeMap.at[posts[to].id].pathSegments)
      /\ computeRelativePath(NoPost, posts[to], tree) # <<>>
      /\ \A from \in 1..Len(posts) :
           LET path == computeRelativePath(posts[from], posts[to], tree)
               fromDir == getHierarchyDir(posts[from].id, tree)
               toDir == getHierarchyDir(posts[to].id, tree)
           IN /\ path # <<>>
              /\ Len(tree.nodeMap.at[posts[to].id].children) > 0 =>
                   /\ resolve(dirParts(fromDir), split(path)) = dirParts(toDir)
                   /\ lastPiece(path) # IndexSlug
                   /\ (path = Dot) <=> (fromDir = toDir)

\* The first attempt has failed, with 403 in the message of its error or without.
FirstFailed == download.pc \notin {"idle", "first"} /\ ~download.first.ok

Failed403 == FirstFailed /\ includes(download.first.message, Status403)

HasAssets(content) == content.assets.present /\ content.assets.urls # {}

\* C25: after a first attempt that failed with 403 in the message, the calls are, in
\* this order, purgeCacheById(postId), getPostContent(postId) once the purge has
\* returned, and one more attempt with the assets of the fresh content once that has
\* arrived with assets; with no assets in the fresh content there is no other attempt
\* and the call resolves.
C25_PurgeRefetchRetry ==
  Failed403 =>
    LET calls == download.calls
    IN /\ Len(calls) \in 2..4
       /\ calls[1] = Called("downloadAssets", download.assets)
       /\ calls[2] = Called("purgeCacheById", download.postId)
       /\ Len(calls) >= 3 <=> download.purged = Resolved
       /\ Len(calls) >= 3 => calls[3] = Called("getPostContent", download.postId)
       /\ Len(calls) = 4 <=> (download.content # Pending /\ download.content.ok
                               /\ HasAssets(download.content))
       /\ Len(calls) = 4 => calls[4] = Called("downloadAssets", download.content.assets)
       /\ (download.content # Pending /\ download.content.ok /\ ~HasAssets(download.content))
            => download.pc = "done" /\ download.result = Resolved

C25_Witness ==
  /\ download.pc = "done"
  /\ download.first = Rejected(MsgPort)
  /\ download.calls = <<Called("downloadAssets", OldAssets),
                        Called("purgeCacheById", PageQ),
                        Called("getPostContent", PageQ),
                        Called("downloadAssets", FreshAssets)>>
  /\ download.result = Resolved

\* C26: when the first attempt succeeds, or fails without 403 in the message of its
\* error, there is one attempt and no call of purgeCacheById or getPostContent, and
\* the caller gets the error of the first attempt.
C26_NoRetryWithout403 ==
  (download.pc \notin {"idle", "first"}
   /\ (download.first.ok \/ ~includes(download.first.message, Status403))) =>
    /\ download.calls = <<Called("downloadAssets", download.assets)>>
    /\ download.pc = "done"
    /\ download.result = download.first

C26_Witness ==
  /\ download.pc = "done"
  /\ download.first = Rejected(MsgNotFound)
  /\ download.result = Rejected(MsgNotFound)
  /\ download.assets = OldAssets

\* C28: purgeCacheById returns for every content of the ParentIndex that listings can
\* give it, a cycle and a node that is its own parent included, and the walk of
\* allChildrenIds pushes no node twice.
C28_PurgeTerminates ==
  /\ last.op = "purge" => last.err # "overflow"
  /\ \A id \in world.nodes :
       LET walk == walkChildren(id, 1)
       IN ~walk.overflow /\ walk.pushes = Cardinality(walk.ids)

\* The node as many parents above id as the ParentIndex has entries, and whether
\* there is a cycle above id (that node still has a recorded parent).
Top(id) == Up(id, Cardinality(DOMAIN parentMap))

CycleAbove(id) == Has(parentMap, Top(id))

\* C30: the upward walk before a cache read of listChildren ends for every content of
\* the ParentIndex and adds no node twice; above a cycle it gives no anchor and the
\* read is a miss; otherwise it gives the node without a recorded parent, under which
\* a hit is valid.
C30_UpwardWalk ==
  /\ \A id \in world.nodes :
       /\ \A i, j \in 1..Len(findParentPath(id, <<>>)) :
            findParentPath(id, <<>>)[i] = findParentPath(id, <<>>)[j] => i = j
       /\ findParent(id) = IF CycleAbove(id) THEN Undefined ELSE Top(id)
  /\ (last.op = "list" /\ last.hit) =>
       /\ ~CycleAbove(last.id)
       /\ Has(updatedAtMap, Top(last.id)) /\ Has(cacheUpdatedAtMap, Top(last.id))
       /\ updatedAtMap[Top(last.id)] = cacheUpdatedAtMap[Top(last.id)]

C30_Witness ==
  /\ last.op = "list" /\ ~last.hit /\ last.again
  /\ CycleAbove(last.id)
  /\ last.obs > 0 /\ last.prevUnder = last.obs
  /\ Has(cacheUpdatedAtMap, last.id) /\ cacheUpdatedAtMap[last.id] = last.obs
  /\ Len(findParentPath(last.id, <<>>)) = 2

\* C29: whatever other calls run while a listChildren call waits for upstream, the
\* cachedAsOfTime that the call stores for its node is the edit time that was observed
\* for the node when the call sent its request, never one recorded after that.
C29_StampObservedAtIssue ==
  (last.op = "list" /\ ~last.hit /\ last.obs > 0 /\ Has(updatedAtMap, last.id)) =>
    cacheUpdatedAtMap[last.id] = last.obs

\* The nested-page blocks on all pages of results of p's listing.
AllBlocksOf(p) ==
  {site.list[p][n][k].id : <<n, k>> \in
     {x \in (1..Len(site.list[p])) \X (1..2) :
        x[2] <= Len(site.list[p][x[1]]) /\ site.list[p][x[1]][x[2]].type = "child_page"}}

ScanComplete ==
  /\ tree.built
  /\ \A p \in Scanned :
       \A c \in AllBlocksOf(p) : c \notin site.fails => Has(tree.nodeMap.at, c)

\* C31: subpage discovery is complete: after buildSubpageTree and after buildBothTree
\* every nested-page block of the listing of a node, on every page of results of the
\* listing, has its node in the tree (unless the page cannot be retrieved), and so
\* have the nested pages of the pages found this way.
C31_DiscoveryComplete == [][(BuildSubpage \/ BuildBoth) => ScanComplete']_vars

\* The nodes of the combined mode when its relation part has returned: cycle
\* detection, path computation, slug deduplication and page synchronization have run.
AfterRelationPhases == buildRelationTree(posts).tree.nodeMap.at

\* C32: the phases of a build run in a fixed order, each once; in the combined mode
\* no parent link is created or changed after cycle detection, path computation, slug
\* deduplication or page synchronization has run: every node of the tree that
\* buildBothTree returns was a node then and has the parent it had then.
C32_NoLinkAfterCycleDetection ==
  [][BuildBoth =>
       \A id \in DOMAIN tree'.nodeMap.at :
         /\ Has(AfterRelationPhases, id)
         /\ tree'.nodeMap.at[id].parentId = AfterRelationPhases[id].parentId]_vars

\* C33: purgeCacheById(id) does not end the caching of id: on content that is not
\* edited, in a process that queried the data source first, a listChildren call for a
\* page whose listing this instance has fetched (again after a purge) is served from
\* the cache, with the result fetched then and without an upstream call.
C33_CachedAfterPurge ==
  (last.op = "list" /\ last.again /\ last.id \in world.pages)
  => (last.hit /\ last.calls = 0 /\ last.res = last.prev)

\* How often id is in the sequence ids.
Occurrences(ids, id) == Cardinality({k \in 1..Len(ids) : ids[k] = id})

\* The parent and children links of the tree agree, and the roots are the nodes
\* without parent.
LinksAgree ==
  /\ \A id \in DOMAIN tree.nodeMap.at, p \in DOMAIN tree.nodeMap.at :
       Occurrences(tree.nodeMap.at[p].children, id) =
         IF tree.nodeMap.at[id].parentId = p THEN 1 ELSE 0
  /\ \A id \in DOMAIN tree.nodeMap.at :
       Occurrences(tree.roots, id) = IF tree.nodeMap.at[id].parentId = Null THEN 1 ELSE 0
  /\ \A k, l \in 1..Len(found) : found[k].id = found[l].id => k = l

\* C34: in every tree a builder returns a node is once in the children of the node its
\* parentId names and in no other children list, a node without parent is once in
\* roots, a page is added once however often it is listed, and the scan of the
\* combined mode changes no parent that the relation gave.
C34_LinksAgree ==
  [][tree'.built =>
       /\ LinksAgree'
       /\ BuildBoth =>
            \A id \in DOMAIN AfterRelationPhases :
              AfterRelationPhases[id].parentId # Null =>
                tree'.nodeMap.at[id].parentId = AfterRelationPhases[id].parentId]_vars

C34_Witness ==
  /\ tree.built
  /\ Len(posts) = 3
  /\ posts[1].id = PageQ /\ posts[2].id = PageP /\ posts[2].rel = <<PageQ>>
  /\ site.list[PageQ][1] = <<ChildPage(PageS), ChildPage(PageS)>>
  /\ site.list[PageS][1] = <<ChildPage(PageP)>>
  /\ tree.nodeMap.at[PageP].parentId = PageQ
  /\ tree.nodeMap.at[PageQ].children = <<PageP, PageS>>
  /\ tree.nodeMap.at[PageS].children = <<>>

\* C35: the response listChildren(n, c) returns from the cache is a response that
\* upstream gave for the node n and the cursor c, whatever the IDs and cursors are.
C35_EntryPerRequest ==
  (last.op = "list" /\ last.hit) => (last.res.id = last.id /\ last.res.cursor = last.cursor)

\* The pages of the list ps that have the parent and the slug of page i of ps, in the
\* tree with the nodes at.
SlugGroup(ps, at, i) ==
  {j \in 1..Len(ps) : /\ at[ps[j].id].parentId = at[ps[i].id].parentId
                      /\ ps[j].slug = ps[i].slug}

\* s, "-" and the first characters of the ID that are left without its hyphens.
WithIdSuffix(slug, id) ==
  LET kept == {k \in 1..Len(id) : id[k] # "-"}
      first == {k \in kept : Cardinality({m \in kept : m < k}) < ShortIdLength}
      pick[S \in SUBSET first] ==
        IF S = {} THEN <<>>
        ELSE LET k == CHOOSE x \in S : \A y \in S : y <= x
             IN Append(pick[S \ {k}], id[k])
  IN slug \o <<"-">> \o pick[first]

\* C36: buildRelationTree gives every page that has the slug s of another page with
\* the same parent (the roots being siblings) the slug s, "-" and the first 8
\* characters of its ID without hyphens, logs one warning for each such group, and
\* leaves the slug of every other page as it was.
C36_RenameRule ==
  [][BuildRelation =>
       LET at == tree'.nodeMap.at
       IN /\ \A i \in 1..Len(posts) :
               at[posts[i].id].post.slug =
                 IF Cardinality(SlugGroup(posts, at, i)) > 1
                 THEN WithIdSuffix(posts[i].slug, posts[i].id)
                 ELSE posts[i].slug
          /\ Cardinality({k \in 1..Len(warnings') : warnings'[k].kind = "duplicate"}) =
               Cardinality({g \in {SlugGroup(posts, at, i) : i \in 1..Len(posts)} :
                              Cardinality(g) > 1})]_vars

C36_Witness ==
  /\ tree.built
  /\ Len(tree.roots) = 3
  /\ tree.nodeMap.at[PageP].post.slug = SlugA \o <<"-", "0", "0", "0", "0", "0", "0", "0", "0">>
  /\ tree.nodeMap.at[PageQ].post.slug = SlugA \o <<"-", "0", "0", "0", "0", "0", "0", "0", "0">>
  /\ tree.nodeMap.at[PageR].post.slug = IndexSlug
  /\ Cardinality({k \in 1..Len(warnings) : warnings[k].kind = "duplicate"}) = 1

\* The nodes of the cycle of the relation that id is on.
CycleOf(id) == {RelationUp(id, k) : k \in 1..Len(posts)}

\* C37: in the tree of buildRelationTree a page that is not on a cycle of the relation,
\* also one whose ancestors are, has the parent its relation names; of the pages of
\* one cycle exactly one is a root and the others have the parent their relation names.
C37_OneLinkPerCycle ==
  tree.built =>
    \A id \in DOMAIN tree.nodeMap.at :
      IF OnCycle(id)
      THEN /\ Cardinality({c \in CycleOf(id) : tree.nodeMap.at[c].parentId = Null}) = 1
           /\ tree.nodeMap.at[id].parentId \in {Null, RelationParent(id)}
      ELSE tree.nodeMap.at[id].parentId = RelationParent(id)

C37_Witness ==
  /\ tree.built
  /\ Len(posts) = 3
  /\ RelationParent(PageP) = PageQ /\ RelationParent(PageQ) = PageP
  /\ RelationParent(PageR) = PageP
  /\ tree.nodeMap.at[PageR].parentId = PageP
  /\ posts[1].id = PageR
  /\ Cardinality({k \in 1..Len(warnings) : warnings[k].kind = "cycle"}) = 1

\* How many calls of op the call of downloadAssetsWithRetry has made.
CallsOf(op) == Cardinality({k \in 1..Len(download.calls) : download.calls[k].op = op})

RetryBounded ==
  download.pc # "idle" =>
    /\ CallsOf("downloadAssets") <= 2
    /\ CallsOf("purgeCacheById") <= 1
    /\ CallsOf("getPostContent") <= 1

\* C38: one call of downloadAssetsWithRetry makes at most two attempts, one
\* purgeCacheById and one getPostContent; what the second attempt returns, an error
\* with 403 included, is what the caller gets, and nothing is called after it; and the
\* call returns once the calls it waits for have returned.
C38_AtMostOneRetry ==
  /\ []RetryBounded
  /\ [][/\ download.pc # "done"
        /\ \A outcome \in Outcomes :
             RetryReturns(outcome) =>
               /\ download'.pc = "done"
               /\ download'.result = outcome
               /\ download'.calls = download.calls]_vars
  /\ (download.pc # "idle") ~> (download.pc = "done")

C38_Witness ==
  /\ download.pc = "done"
  /\ download.first = Rejected(MsgForbidden)
  /\ Len(download.calls) = 4
  /\ download.result = Rejected(MsgForbidden)

====
